---- MODULE Spec2Model ----
(***************************************************************************)
(* Coordination layer of the supermarket WhatsApp agent:                   *)
(*   - circuit breaker of the stock/price service (tools/redis_tools.py)   *)
(*   - per-customer execution lock around a turn (agent_multiagent.py)     *)
(*   - order session and cart store with resync (tools/redis_tools.py)     *)
(*   - message debounce buffer and its consolidation loop (server.py)      *)
(*   - stock/price lookup behind the circuit breaker (tools/http_tools.py) *)
(*   - conversation router and its response check (agent_multiagent.py)    *)
(*   - the writers of cart and session around the lock, the primitives     *)
(*     when Redis does not answer, the join of a turn text, and the        *)
(*     commands of concurrent pushes, drains and failure reports           *)
(*   - order submission by finalizar_pedido_tool, the exit paths of a      *)
(*     turn, the step limit of the graph, and the cart across the          *)
(*     attempts of a responder (agent_multiagent.py, tools/http_tools.py)  *)
(*   - the human takeover and its cooldown key (server.py)                 *)
(* Every Redis key is modelled by its value and its remaining time to      *)
(* live in seconds; a key whose remaining time reaches 0 is deleted.       *)
(* Outside the part on a Redis that does not answer, the server is up.     *)
(***************************************************************************)
EXTENDS Integers, Sequences, FiniteSets, TLC

VARIABLES
    \* ---- circuit breaker of service "estoque_api"
    cbFailures,     \* value of circuit:failures:<service>; 0 = key absent
    cbFailuresTtl,  \* remaining seconds of that key; 0 = key absent
    cbOpenTtl,      \* remaining seconds of circuit:open:<service>; 0 = absent
    cbRun,          \* failures reported in the current window since the last success
    cbRunAge,       \* seconds since the first failure of that run
    cbOpenAge,      \* seconds since the open flag was last set; -1 = never set
    cbLast,         \* the last circuit operation and what it observed
    \* ---- execution lock of one customer and the turns that contend for it
    lockVal,        \* value of the customer's lock key; NoToken = key absent
    nextToken,      \* the next fresh token an acquire hands out
    turnPc,         \* per invocation of run_agent_langgraph: where it is
    turnToken,      \* per invocation: its lock_token
    lockLast,       \* the last lock operation and what it observed
    \* ---- order session and cart of one customer, and the external order
    session,        \* value of order_session:<tel>; status "absent" = no key
    sessionTtl,     \* remaining seconds of that key; 0 = absent
    cart,           \* the list cart:<tel>, oldest item first
    cartTtl,        \* remaining seconds of the list; 0 = absent or no TTL
    sentLiveTtl,    \* seconds left of the modification window opened by mark_sent
    cartLast,       \* the last cart/session operation and what it observed
    comprovanteTtl, \* remaining seconds of comprovante:<tel>; 0 = absent
    completedTtl,   \* remaining seconds of order_completed:<tel>; 0 = absent
    apiUp,          \* the order API answers the PUT of overwrite_order
    ctxText,        \* what the last get_order_context returned
    \* ---- one call of finalizar_pedido_tool
    finPc,          \* "idle", or "submit" while pedidos(json_body) is under way
    finItems,       \* its local items
    finWaited,      \* a key ran out while the request was under way
    finLast,        \* the last call that returned and what it did
    \* ---- the exit paths of run_agent_langgraph, per invocation
    exHist,         \* the history was read and the user message saved, or not yet
    exOut,          \* the dict the invocation returns
    \* ---- the cart across the attempts of one vendedor execution
    rySnap,         \* the cart when the turn entered the graph
    \* ---- the human takeover of one customer's conversation
    cooldownTtl,    \* remaining seconds of cooldown:<tel>; 0 = key absent
    cdLast,         \* the last webhook call and how it was answered
    \* ---- the Redis server as the coordination primitives see it
    redisUp,        \* the server answers commands
    redisClient,    \* _redis_client of get_redis_client is not None
    localBuffer,    \* _local_buffer[tel]: fragments kept in process memory
    outLast,        \* the last primitive called and what it returned
    \* ---- the texts of the fragments on their way into one turn text
    joinBuf,        \* the "text" of each payload in msgbuf:<tel>, oldest first
    joinDrained,    \* the texts the last drain took out of the list
    joinFinal,      \* final of _enqueue_buffer_job: texts and delimiters
    \* ---- the buffer's list under commands of concurrent callers
    aBuf,           \* the list msgbuf:<tel> as the server holds it
    aTtl,           \* the key has a TTL
    aNext,          \* the next fragment pushed
    aPc,            \* per pusher: the command of push_message_to_buffer it is at
    aDrainPc,       \* where pop_all_messages is in its pipeline
    aRead,          \* what its LRANGE read
    aReturned,      \* per fragment: how many drains returned it
    \* ---- report_failure called by several turns at once, one failure window
    fCount,         \* value of circuit:failures:<service>; 0 = key absent
    fOpen,          \* the key circuit:open:<service> exists
    fPc,            \* per caller: the command of report_failure it is at
    fSeen,          \* per caller: its local failures, the reply of INCR
    fReported,      \* calls of report_failure whose INCR was executed
    \* ---- one turn through the graph orchestrator -> vendedor | caixa
    rtNode,         \* the node that runs next; "none" before a turn, "done" after
    rtPhase,        \* inside a responder node: "first" or "retry"
    rtInvocations,  \* agent.invoke calls made by the node execution under way
    rtFirstFlagged, \* its first response was flagged as a hallucination
    rtHops,         \* times caixa handed the turn back to the orchestrator
    rtSteps,        \* node executions of the graph.invoke under way
    rtCls,          \* what the orchestrator's last classification came to
    rtOut,          \* final_response and the execution that produced it
    \* ---- message buffer of one customer and its consolidation loop
    msgbuf,         \* the list msgbuf:<tel>: fragments waiting, oldest first
    msgbufTtl,      \* remaining seconds of the list; 0 = absent
    buffer_sessions,\* buffer_sessions[num]: a consolidation loop is running
    loopPc,         \* where _enqueue_buffer_job is
    prev,           \* its local prev
    stall,          \* its local stall
    nextFrag,       \* the next fragment the webhook receives
    included,       \* per fragment: in how many enqueued turn texts it is
    loops,          \* tasks of _enqueue_buffer_job that are running
    lastAge,        \* seconds since the newest fragment arrived, at least; -1 =
                    \* it arrived during the sleep that is under way
    drainAge,       \* lastAge when the turn being enqueued was drained; -1 = none
    \* ---- one caller of estoque_preco for one EAN
    lkPc,           \* "idle", or "attempt" inside the retry loop
    lkAttempt,      \* the loop variable attempt
    lkCached,       \* estoque_preco_cache:<ean> exists
    lkLast,         \* the last step of the lookup and what it observed
    lkOutcome       \* how the last request of the lookup ended; "none" = none sent

cbVars == <<cbFailures, cbFailuresTtl, cbOpenTtl, cbRun, cbRunAge, cbOpenAge, cbLast>>

lockVars == <<lockVal, nextToken, turnPc, turnToken, lockLast>>

cartVars == <<session, sessionTtl, cart, cartTtl, sentLiveTtl, cartLast>>

bufVars == <<msgbuf, msgbufTtl, buffer_sessions, loopPc, prev, stall, nextFrag, included,
            loops, lastAge, drainAge>>

lkVars == <<lkPc, lkAttempt, lkCached, lkLast, lkOutcome>>

orderVars == <<comprovanteTtl, completedTtl>>

rtVars == <<rtNode, rtPhase, rtInvocations, rtFirstFlagged, rtHops, rtSteps, rtCls, rtOut>>

apiVars == <<apiUp>>

ctxVars == <<ctxText>>

finVars == <<finPc, finItems, finWaited, finLast>>

exVars == <<exHist, exOut>>

retryVars == <<rySnap>>

cdVars == <<cooldownTtl, cdLast>>

outVars == <<redisUp, redisClient, localBuffer, outLast>>

joinVars == <<joinBuf, joinDrained, joinFinal>>

atomVars == <<aBuf, aTtl, aNext, aPc, aDrainPc, aRead, aReturned>>

failVars == <<fCount, fOpen, fPc, fSeen, fReported>>

vars == <<cbVars, lockVars, cartVars, bufVars, lkVars, orderVars, rtVars, apiVars, outVars,
          joinVars, atomVars, failVars, ctxVars, finVars, exVars, retryVars, cdVars>>

(***************************************************************************)
(* Circuit breaker                                                         *)
(***************************************************************************)

\* report_failure(service, threshold=5, cooldown=60)
THRESHOLD == 5
COOLDOWN == 60
\* client.expire(fkey, 60)
FAILURE_WINDOW == 60
\* seconds that pass in one step of the circuit's clock
CbTick == 20

\* the largest age the model distinguishes
CbAgeCap == COOLDOWN + FAILURE_WINDOW

\* check_circuit_open: the circuit is open iff the key circuit:open exists
OpenOnlyWithFailures == cbOpenTtl > 0 /\ cbFailures > 0
check_circuit_open == cbOpenTtl > 0

\* report_failure: "if failures >= threshold"
ThresholdReachedStrict(failures) == failures > THRESHOLD
ThresholdReached(failures) == failures >= THRESHOLD

\* report_failure: INCR, EXPIRE on the first failure, SET open and DEL on threshold
ReportFailure ==
    LET failures == cbFailures + 1
        fresh    == cbRun = 0 \/ cbRunAge >= FAILURE_WINDOW
        run      == IF fresh THEN 1 ELSE cbRun + 1
        opens    == ThresholdReached(failures)
    IN  /\ cbFailures' = IF opens THEN 0 ELSE failures
        /\ cbFailuresTtl' = IF opens THEN 0
                            ELSE IF failures = 1 THEN FAILURE_WINDOW
                            ELSE cbFailuresTtl
        /\ cbOpenTtl' = IF opens THEN COOLDOWN ELSE cbOpenTtl
        /\ cbOpenAge' = IF opens THEN 0 ELSE cbOpenAge
        /\ cbRun' = IF run >= THRESHOLD THEN 0 ELSE run
        /\ cbRunAge' = IF fresh \/ run >= THRESHOLD THEN 0 ELSE cbRunAge
        /\ cbLast' = [op |-> "failure", opened |-> opens, run |-> run, prior |-> cbFailures]

\* report_success: "if client.exists(fkey): client.delete(fkey)"
CounterKept(failures) == failures
CounterAfterSuccess(failures) == 0

ReportSuccess ==
    /\ cbFailures' = CounterAfterSuccess(cbFailures)
    /\ cbFailuresTtl' = IF CounterAfterSuccess(cbFailures) = 0 THEN 0 ELSE cbFailuresTtl
    /\ cbRun' = 0
    /\ cbRunAge' = 0
    /\ cbLast' = [op |-> "success", opened |-> FALSE, run |-> 0, prior |-> cbFailures]
    /\ UNCHANGED <<cbOpenTtl, cbOpenAge>>

\* remaining time of a key after CbTick seconds
CbAfter(ttl) == IF ttl > CbTick THEN ttl - CbTick ELSE 0
CbAged(age) == IF age + CbTick > CbAgeCap THEN CbAgeCap ELSE age + CbTick

\* CbTick seconds pass: Redis expires the keys whose time is over
CircuitTick ==
    /\ cbFailuresTtl' = CbAfter(cbFailuresTtl)
    /\ cbFailures' = IF CbAfter(cbFailuresTtl) = 0 THEN 0 ELSE cbFailures
    /\ cbOpenTtl' = CbAfter(cbOpenTtl)
    /\ cbOpenAge' = IF cbOpenAge < 0 THEN cbOpenAge ELSE CbAged(cbOpenAge)
    /\ cbRunAge' = IF cbRun = 0 THEN 0 ELSE CbAged(cbRunAge)
    /\ cbLast' = [op |-> "tick", opened |-> FALSE, run |-> cbRun, prior |-> cbFailures]
    /\ UNCHANGED cbRun

InitCircuit ==
    /\ cbFailures = 0
    /\ cbFailuresTtl = 0
    /\ cbOpenTtl = 0
    /\ cbRun = 0
    /\ cbRunAge = 0
    /\ cbOpenAge = -1
    /\ cbLast = [op |-> "none", opened |-> FALSE, run |-> 0, prior |-> 0]

NextCircuit ==
    \/ ReportFailure /\ UNCHANGED <<lockVars, cartVars, bufVars, lkVars, orderVars, rtVars, apiVars, outVars, joinVars, atomVars, failVars, ctxVars, finVars, exVars, retryVars, cdVars>>
    \/ ReportSuccess /\ UNCHANGED <<lockVars, cartVars, bufVars, lkVars, orderVars, rtVars, apiVars, outVars, joinVars, atomVars, failVars, ctxVars, finVars, exVars, retryVars, cdVars>>
    \/ CircuitTick /\ UNCHANGED <<lockVars, cartVars, bufVars, lkVars, orderVars, rtVars, apiVars, outVars, joinVars, atomVars, failVars, ctxVars, finVars, exVars, retryVars, cdVars>>

(***************************************************************************)
(* Execution lock and run_agent_langgraph                                  *)
(* acquire_agent_lock and release_agent_lock are imported from             *)
(* tools.redis_tools but not defined in the sources at hand; they follow   *)
(* the contract of the specification, section 4.2: acquire is a single     *)
(* non-blocking attempt that returns a fresh token or nil, release deletes *)
(* the key only if it holds the token given, and the key's TTL, which      *)
(* exceeds the worst-case router execution time, frees a lock nobody       *)
(* released.                                                               *)
(***************************************************************************)

\* concurrent invocations of run_agent_langgraph for the customer
NumWorkers == 2
\* tokens handed out in one behaviour
MaxTokens == 4

Workers == 1..NumWorkers

\* acquire returns nil
NoToken == 0

\* acquire(customer) -> token | nil
AcquireAlways == nextToken
acquire_agent_lock == IF lockVal = NoToken THEN nextToken ELSE NoToken

\* release(customer, token): a no-op unless token is the current holder's
ReleaseSkipped(token) == lockVal
release_agent_lock(token) == IF lockVal = token THEN NoToken ELSE lockVal

\* "if not lock_token: return {... 'error': 'busy'}"
BusyIgnored(lock_token) == FALSE
Busy(lock_token) == lock_token = NoToken

\* "release_agent_lock(telefone, lock_token)": the turn passes its own token
CurrentHolder(w) == lockVal
ReleaseArg(w) == turnToken[w]

\* run_agent_langgraph up to the start of the router: one acquire, then
\* either the busy response or the turn
RunAgentStart(w) ==
    /\ turnPc[w] = "idle"
    /\ nextToken <= MaxTokens
    /\ LET lock_token == acquire_agent_lock
       IN  IF Busy(lock_token)
           THEN /\ lockLast' = [op |-> "busy", w |-> w, own |-> lock_token,
                                held |-> lockVal]
                /\ UNCHANGED <<lockVal, nextToken, turnPc, turnToken>>
           ELSE /\ lockVal' = IF lock_token = NoToken THEN lockVal ELSE lock_token
                /\ nextToken' = IF lock_token = NoToken THEN nextToken
                                 ELSE nextToken + 1
                /\ turnPc' = [turnPc EXCEPT ![w] = "router"]
                /\ turnToken' = [turnToken EXCEPT ![w] = lock_token]
                /\ lockLast' = [op |-> "acquire", w |-> w, own |-> lock_token,
                                held |-> lockVal]

\* graph.invoke returns or raises; what is left is saving the answer to the
\* history and the finally block
RouterDone(w) ==
    /\ turnPc[w] = "router"
    /\ turnPc' = [turnPc EXCEPT ![w] = "saving"]
    /\ lockLast' = [op |-> "routed", w |-> w, own |-> turnToken[w], held |-> lockVal]
    /\ UNCHANGED <<lockVal, nextToken, turnToken>>

\* "finally: release_agent_lock(telefone, lock_token)"
RunAgentFinish(w) ==
    /\ turnPc[w] = "saving"
    /\ lockVal' = release_agent_lock(ReleaseArg(w))
    /\ turnPc' = [turnPc EXCEPT ![w] = "idle"]
    /\ turnToken' = [turnToken EXCEPT ![w] = NoToken]
    /\ lockLast' = [op |-> "release", w |-> w, own |-> turnToken[w], held |-> lockVal]
    /\ UNCHANGED nextToken

\* the lock's TTL runs out: not before the holder's router execution is over
LockExpire ==
    /\ lockVal # NoToken
    /\ \A w \in Workers : ~(turnPc[w] = "router" /\ turnToken[w] = lockVal)
    /\ lockVal' = NoToken
    /\ lockLast' = [op |-> "expire", w |-> 0, own |-> NoToken, held |-> lockVal]
    /\ UNCHANGED <<nextToken, turnPc, turnToken>>

InitLock ==
    /\ lockVal = NoToken
    /\ nextToken = 1
    /\ turnPc = [w \in Workers |-> "idle"]
    /\ turnToken = [w \in Workers |-> NoToken]
    /\ lockLast = [op |-> "none", w |-> 0, own |-> NoToken, held |-> NoToken]

NextLock ==
    \/ \E w \in Workers : RunAgentStart(w) /\ UNCHANGED <<cbVars, cartVars, bufVars, lkVars, orderVars, rtVars, apiVars, outVars, joinVars, atomVars, failVars, ctxVars, finVars, exVars, retryVars, cdVars>>
    \/ \E w \in Workers : RouterDone(w) /\ UNCHANGED <<cbVars, cartVars, bufVars, lkVars, orderVars, rtVars, apiVars, outVars, joinVars, atomVars, failVars, ctxVars, finVars, exVars, retryVars, cdVars>>
    \/ \E w \in Workers : RunAgentFinish(w) /\ UNCHANGED <<cbVars, cartVars, bufVars, lkVars, orderVars, rtVars, apiVars, outVars, joinVars, atomVars, failVars, ctxVars, finVars, exVars, retryVars, cdVars>>
    \/ LockExpire /\ UNCHANGED <<cbVars, cartVars, bufVars, lkVars, orderVars, rtVars, apiVars, outVars, joinVars, atomVars, failVars, ctxVars, finVars, exVars, retryVars, cdVars>>

(***************************************************************************)
(* Order session and cart store                                            *)
(* A cart item is the dict stored as JSON in the list; its quantidade is   *)
(* a JSON value that float() either accepts (num) or rejects; its          *)
(* observacao is the sequence of the words of the note.                    *)
(***************************************************************************)

\* SESSION_TTL = 30 * 60, MODIFICATION_TTL = 15 * 60
SESSION_TTL == 1800
MODIFICATION_TTL == 900
\* seconds that pass in one step of the session's clock
CartTick == 900
\* items in the cart, and the largest merged quantity
MaxCart == 2
MaxQty == 3

NoSession == [status |-> "absent", sent_at |-> FALSE, order_id |-> "None"]

Num(n) == [num |-> TRUE, val |-> n]
NotANumber == [num |-> FALSE, val |-> 0]

Item(p, q, u, pr, obs) ==
    [produto |-> p, quantidade |-> q, unidades |-> u, preco |-> pr, observacao |-> obs]

\* the item_json arguments tried: valid says whether json.loads accepts it
AddInputs ==
    { [valid |-> TRUE,  item |-> Item("Arroz", Num(1), 0, 10, <<>>)],
      [valid |-> TRUE,  item |-> Item("arroz ", Num(2), 0, 12, <<"tipo1">>)],
      [valid |-> TRUE,  item |-> Item("Feijao", Num(2), 3, 8, <<>>)],
      [valid |-> TRUE,  item |-> Item("Tomate", Num(3), 0, 5, <<>>)],
      [valid |-> TRUE,  item |-> Item("ARROZ", NotANumber, 0, 10, <<>>)],
      [valid |-> FALSE, item |-> Item("", NotANumber, 0, 0, <<>>)] }

\* the index arguments tried by remove_item_from_cart (0-based)
RemoveInputs == (0 - 1)..MaxCart

\* item.get("produto", "").strip().lower()
NormName(p) ==
    CASE p = "Arroz"  -> "arroz"
      [] p = "arroz " -> "arroz"
      [] p = "ARROZ"  -> "arroz"
      [] p = "Feijao" -> "feijao"
      [] p = "Tomate" -> "tomate"
      [] OTHER        -> p

\* "obs_new not in obs_old": obs_new occurs in obs_old
OccursIn(new, old) ==
    \E k \in 1..(Len(old) + 1) :
        /\ k + Len(new) - 1 <= Len(old)
        /\ SubSeq(old, k, k + Len(new) - 1) = new

\* the placeholder remove_item_from_cart writes over the element it deletes
DeletedMarker == Item("__DELETED__", NotANumber, 0, 0, <<>>)

\* LSET key index value, index 0-based and inside the list
LSet(list, index, value) == [list EXCEPT ![index + 1] = value]
\* LREM key 0 value: every element equal to value goes
LRem(list, value) == SelectSeq(list, LAMBDA x : x # value)

\* get_cart_items: the parsed elements of the list
get_cart_items == cart

\* the first index (0-based) whose name matches, -1 if none
FoundIndex(items, name) ==
    IF \E i \in 1..Len(items) : NormName(items[i].produto) = name
    THEN (CHOOSE i \in 1..Len(items) :
            /\ NormName(items[i].produto) = name
            /\ \A j \in 1..(i - 1) : NormName(items[j].produto) # name) - 1
    ELSE 0 - 1

\* "nova_qtd = float(existing) + float(new)"
ReplacedQty(old, new) == new
MergedQty(old, new) == old + new

\* the try block of the merge raises when float() rejects a quantidade
MergeRaises(existing, new) == ~existing.quantidade.num \/ ~new.quantidade.num

\* the existing item after the merge
Merged(existing, new) ==
    [existing EXCEPT
        !.quantidade = Num(MergedQty(existing.quantidade.val, new.quantidade.val)),
        !.unidades = existing.unidades + new.unidades,
        !.preco = new.preco,
        !.observacao = IF new.observacao # <<>> /\ ~OccursIn(new.observacao, @)
                       THEN @ \o new.observacao ELSE @]

\* the list after the merge-or-append of add_item_to_cart
CartAfterAdd(items, new) ==
    LET found_index == FoundIndex(items, NormName(new.produto))
    IN  IF found_index >= 0
        THEN IF MergeRaises(items[found_index + 1], new)
             THEN Append(items, new)
             ELSE LSet(items, found_index, Merged(items[found_index + 1], new))
        ELSE Append(items, new)

\* start_order_session: status building, no sent_at, no order_id
StartedSession == [status |-> "building", sent_at |-> FALSE, order_id |-> "None"]

\* "if 0 <= index < len(items)"
IndexInRange(index, n) == 0 <= index /\ index < n

\* the position LSET marks for a 0-based index
MarkedNext(index) == index + 1
MarkedIndex(index) == index

\* the payload of the auto-update of add_item_to_cart: the complete cart
NewItemOnly(full_cart, new) == <<new>>
AddPayload(full_cart, new) == full_cart

\* overwrite_order: the PUT carries data["itens"] of the JSON body
Overwrite(payload) == payload

\* overwrite_order returns its error text, or the auto-update's except logs
\* the failure: the cart stays as the mutation left it
RolledBack(before, after) == before
AfterFailedSync(before, after) == after

\* what an operation leaves in cartLast
Did(op, ok, merged, overwrites, full) ==
    [op |-> op, ok |-> ok, merged |-> merged, status |-> session.status,
     live |-> sentLiveTtl > 0, overwrites |-> overwrites, full |-> full]

\* add_item_to_cart(telefone, item_json)
AddItem(in) ==
    LET restart  == session.status # "building"
        new      == in.item
        found    == FoundIndex(get_cart_items, NormName(new.produto))
        merged   == found >= 0 /\ ~MergeRaises(cart[found + 1], new)
        after    == CartAfterAdd(get_cart_items, new)
        resync   == session.status = "sent"
        failed   == resync /\ ~apiUp
    IN  /\ Len(after) <= MaxCart
        /\ \A i \in 1..Len(after) :
              after[i].quantidade.num => after[i].quantidade.val <= MaxQty
        /\ session' = IF restart THEN StartedSession ELSE session
        /\ IF in.valid
           THEN /\ cart' = IF failed THEN AfterFailedSync(get_cart_items, after) ELSE after
                /\ cartTtl' = SESSION_TTL
                /\ sessionTtl' = SESSION_TTL
                /\ cartLast' = Did("add", TRUE, merged, IF resync THEN 1 ELSE 0,
                                   resync /\ ~failed
                                      /\ Overwrite(AddPayload(after, new)) = after)
           ELSE /\ sessionTtl' = IF restart THEN SESSION_TTL ELSE sessionTtl
                /\ cartLast' = Did("add", FALSE, FALSE, 0, FALSE)
                /\ UNCHANGED <<cart, cartTtl>>
        /\ UNCHANGED <<sentLiveTtl, orderVars>>

\* remove_item_from_cart(telefone, index): LSET the placeholder, LREM it; an
\* LSET outside the list raises and the function returns False
RemoveItem(index) ==
    LET hit    == IndexInRange(index, Len(cart))
        raises == hit /\ ~IndexInRange(MarkedIndex(index), Len(cart))
        ok     == hit /\ ~raises
        after  == IF ok THEN LRem(LSet(cart, MarkedIndex(index), DeletedMarker),
                                  DeletedMarker)
                  ELSE cart
        resync == ok /\ session.status = "sent"
        failed == resync /\ ~apiUp
    IN  /\ cart' = IF failed THEN AfterFailedSync(cart, after) ELSE after
        /\ cartTtl' = IF cart' = <<>> THEN 0 ELSE cartTtl
        /\ cartLast' = Did("remove", ok, FALSE, IF resync THEN 1 ELSE 0,
                           resync /\ ~failed /\ Overwrite(get_cart_items') = after)
        /\ UNCHANGED <<session, sessionTtl, sentLiveTtl, orderVars>>

\* clear_cart(telefone): the human takeover of the webhook
ClearCart ==
    /\ cart' = <<>>
    /\ cartTtl' = 0
    /\ cartLast' = Did("clear", TRUE, FALSE, 0, FALSE)
    /\ UNCHANGED <<session, sessionTtl, sentLiveTtl, orderVars>>

\* reset_pedido_tool: cart, session and receipt are deleted and a new session
\* is started
ResetPedido ==
    /\ cart' = <<>>
    /\ cartTtl' = 0
    /\ session' = StartedSession
    /\ sessionTtl' = SESSION_TTL
    /\ comprovanteTtl' = 0
    /\ sentLiveTtl' = 0
    /\ cartLast' = Did("reset", TRUE, FALSE, 0, FALSE)
    /\ UNCHANGED completedTtl

\* set_comprovante: client.set(key, url, ex=7200)
RECEIPT_TTL == 7200

\* the webhook stores the receipt image the customer sent
SetComprovante ==
    /\ comprovanteTtl' = RECEIPT_TTL
    /\ cartLast' = Did("receipt", TRUE, FALSE, 0, FALSE)
    /\ UNCHANGED <<session, sessionTtl, cart, cartTtl, sentLiveTtl, completedTtl>>

\* mark_order_sent: client.set(completed_key, "1", ex=7200)
COMPLETED_TTL == 7200

\* mark_order_sent: client.expire(comprovante_key(telefone), MODIFICATION_TTL)
\* acts on a receipt that exists
ReceiptTtlKept(ttl) == ttl
ReceiptTtlAfterSent(ttl) == IF ttl > 0 THEN MODIFICATION_TTL ELSE 0

\* a session that was only given the new status
StatusOnly(old) == [old EXCEPT !.status = "sent"]

\* mark_order_sent: the stored session, or a new dict when there is none,
\* with status, sent_at and order_id assigned
SentSession(old) == [status |-> "sent", sent_at |-> TRUE, order_id |-> "pedido"]

\* mark_order_sent(telefone, order_id); EXPIRE on a cart or a receipt that
\* does not exist does nothing
mark_order_sent ==
    /\ session' = SentSession(session)
    /\ sessionTtl' = MODIFICATION_TTL
    /\ cartTtl' = IF get_cart_items # <<>> THEN MODIFICATION_TTL ELSE 0
    /\ sentLiveTtl' = MODIFICATION_TTL
    /\ comprovanteTtl' = ReceiptTtlAfterSent(comprovanteTtl)
    /\ completedTtl' = COMPLETED_TTL
    /\ cartLast' = Did("mark_sent", TRUE, FALSE, 0, FALSE)
    /\ UNCHANGED cart

\* finalizar_pedido_tool with a cart the order API accepts: the items are
\* submitted and mark_order_sent(telefone, result) runs
MarkSent ==
    /\ get_cart_items # <<>>
    /\ mark_order_sent

\* a context that tells every new session the same
FreshWhenAbsent(status, was_completed, is_greeting) ==
    CASE status = "absent"              -> "fresh"
      [] status = "building"            -> "empty"
      [] status = "sent" /\ is_greeting -> "greeting"
      [] OTHER                          -> "sent"

\* the string get_order_context returns, by the branch that returns it
ContextText(status, was_completed, is_greeting) ==
    CASE status = "absent" /\ was_completed  -> "returning"
      [] status = "absent" /\ ~was_completed -> "fresh"
      [] status = "building"                 -> "empty"
      [] status = "sent" /\ is_greeting      -> "greeting"
      [] OTHER                               -> "sent"

\* get_order_context(telefone, mensagem) at the start of a turn
GetOrderContext(is_greeting) ==
    /\ ctxText' = ContextText(session.status, completedTtl > 0, is_greeting)
    /\ IF session.status = "absent"
       THEN /\ session' = StartedSession
            /\ sessionTtl' = SESSION_TTL
            /\ completedTtl' = 0
            /\ UNCHANGED <<cart, cartTtl, sentLiveTtl>>
       ELSE IF session.status = "building"
       THEN /\ sessionTtl' = SESSION_TTL
            /\ UNCHANGED <<session, cart, cartTtl, sentLiveTtl, completedTtl>>
       ELSE IF is_greeting
       THEN /\ session' = StartedSession
            /\ sessionTtl' = SESSION_TTL
            /\ cart' = <<>>
            /\ cartTtl' = 0
            /\ sentLiveTtl' = 0
            /\ UNCHANGED completedTtl
       ELSE UNCHANGED <<session, sessionTtl, cart, cartTtl, sentLiveTtl, completedTtl>>
    /\ UNCHANGED comprovanteTtl
    /\ cartLast' = Did("context", is_greeting, FALSE, 0, FALSE)

\* remaining time of a key after CartTick seconds
CartAfter(ttl) == IF ttl > CartTick THEN ttl - CartTick ELSE 0

\* CartTick seconds pass: Redis expires the keys whose time is over
CartClock ==
    /\ sessionTtl > 0 \/ cartTtl > 0 \/ comprovanteTtl > 0 \/ completedTtl > 0
    /\ sessionTtl' = CartAfter(sessionTtl)
    /\ session' = IF CartAfter(sessionTtl) = 0 THEN NoSession ELSE session
    /\ cartTtl' = CartAfter(cartTtl)
    /\ cart' = IF CartAfter(cartTtl) = 0 THEN <<>> ELSE cart
    /\ sentLiveTtl' = CartAfter(sentLiveTtl)
    /\ comprovanteTtl' = CartAfter(comprovanteTtl)
    /\ completedTtl' = CartAfter(completedTtl)
    /\ cartLast' = Did("tick", TRUE, FALSE, 0, FALSE)

InitCart ==
    /\ session = NoSession
    /\ sessionTtl = 0
    /\ cart = <<>>
    /\ cartTtl = 0
    /\ sentLiveTtl = 0
    /\ comprovanteTtl = 0
    /\ completedTtl = 0
    /\ cartLast = [op |-> "none", ok |-> TRUE, merged |-> FALSE, status |-> "absent",
                   live |-> FALSE, overwrites |-> 0, full |-> FALSE]

NextCart ==
    \/ \E in \in AddInputs : AddItem(in) /\ UNCHANGED <<cbVars, lockVars, bufVars, lkVars, rtVars, apiVars, outVars, joinVars, atomVars, failVars, ctxVars, finVars, exVars, retryVars, cdVars>>
    \/ \E index \in RemoveInputs : RemoveItem(index) /\ UNCHANGED <<cbVars, lockVars, bufVars, lkVars, rtVars, apiVars, outVars, joinVars, atomVars, failVars, ctxVars, finVars, exVars, retryVars, cdVars>>
    \/ ClearCart /\ UNCHANGED <<cbVars, lockVars, bufVars, lkVars, rtVars, apiVars, outVars, joinVars, atomVars, failVars, ctxVars, finVars, exVars, retryVars, cdVars>>
    \/ MarkSent /\ UNCHANGED <<cbVars, lockVars, bufVars, lkVars, rtVars, apiVars, outVars, joinVars, atomVars, failVars, ctxVars, finVars, exVars, retryVars, cdVars>>
    \/ \E g \in BOOLEAN : GetOrderContext(g) /\ UNCHANGED <<cbVars, lockVars, bufVars, lkVars, rtVars, apiVars, outVars, joinVars, atomVars, failVars, finVars, exVars, retryVars, cdVars>>
    \/ CartClock /\ UNCHANGED <<cbVars, lockVars, bufVars, lkVars, rtVars, apiVars, outVars, joinVars, atomVars, failVars, ctxVars, finVars, exVars, retryVars, cdVars>>
    \/ ResetPedido /\ UNCHANGED <<cbVars, lockVars, bufVars, lkVars, rtVars, apiVars, outVars, joinVars, atomVars, failVars, ctxVars, finVars, exVars, retryVars, cdVars>>

\* the item_json arguments tried where the order's life is what matters
OrderInputs == {in \in AddInputs : in.item.produto \in {"Feijao", ""}}

\* the order of one customer from its first item to its expiry
\* the order API goes down or comes back
ApiToggle ==
    /\ apiUp' = ~apiUp
    /\ UNCHANGED <<cartVars, orderVars>>

InitApi == apiUp = TRUE

InitContext == ctxText = "none"

NextResync ==
    \/ \E in \in OrderInputs : AddItem(in) /\ UNCHANGED <<cbVars, lockVars, bufVars, lkVars, rtVars, apiVars, outVars, joinVars, atomVars, failVars, ctxVars, finVars, exVars, retryVars, cdVars>>
    \/ \E index \in RemoveInputs : RemoveItem(index) /\ UNCHANGED <<cbVars, lockVars, bufVars, lkVars, rtVars, apiVars, outVars, joinVars, atomVars, failVars, ctxVars, finVars, exVars, retryVars, cdVars>>
    \/ MarkSent /\ UNCHANGED <<cbVars, lockVars, bufVars, lkVars, rtVars, apiVars, outVars, joinVars, atomVars, failVars, ctxVars, finVars, exVars, retryVars, cdVars>>
    \/ \E g \in BOOLEAN : GetOrderContext(g) /\ UNCHANGED <<cbVars, lockVars, bufVars, lkVars, rtVars, apiVars, outVars, joinVars, atomVars, failVars, finVars, exVars, retryVars, cdVars>>
    \/ CartClock /\ UNCHANGED <<cbVars, lockVars, bufVars, lkVars, rtVars, apiVars, outVars, joinVars, atomVars, failVars, ctxVars, finVars, exVars, retryVars, cdVars>>
    \/ ApiToggle /\ UNCHANGED <<cbVars, lockVars, bufVars, lkVars, rtVars, outVars, joinVars, atomVars, failVars, ctxVars, finVars, exVars, retryVars, cdVars>>

NextOrder ==
    \/ \E in \in OrderInputs : AddItem(in) /\ UNCHANGED <<cbVars, lockVars, bufVars, lkVars, rtVars, apiVars, outVars, joinVars, atomVars, failVars, ctxVars, finVars, exVars, retryVars, cdVars>>
    \/ \E index \in RemoveInputs : RemoveItem(index) /\ UNCHANGED <<cbVars, lockVars, bufVars, lkVars, rtVars, apiVars, outVars, joinVars, atomVars, failVars, ctxVars, finVars, exVars, retryVars, cdVars>>
    \/ MarkSent /\ UNCHANGED <<cbVars, lockVars, bufVars, lkVars, rtVars, apiVars, outVars, joinVars, atomVars, failVars, ctxVars, finVars, exVars, retryVars, cdVars>>
    \/ \E g \in BOOLEAN : GetOrderContext(g) /\ UNCHANGED <<cbVars, lockVars, bufVars, lkVars, rtVars, apiVars, outVars, joinVars, atomVars, failVars, finVars, exVars, retryVars, cdVars>>
    \/ CartClock /\ UNCHANGED <<cbVars, lockVars, bufVars, lkVars, rtVars, apiVars, outVars, joinVars, atomVars, failVars, ctxVars, finVars, exVars, retryVars, cdVars>>
    \/ ResetPedido /\ UNCHANGED <<cbVars, lockVars, bufVars, lkVars, rtVars, apiVars, outVars, joinVars, atomVars, failVars, ctxVars, finVars, exVars, retryVars, cdVars>>
    \/ SetComprovante /\ UNCHANGED <<cbVars, lockVars, bufVars, lkVars, rtVars, apiVars, outVars, joinVars, atomVars, failVars, ctxVars, finVars, exVars, retryVars, cdVars>>

(***************************************************************************)
(* finalizar_pedido_tool, request by request                               *)
(* The tool reads the cart, posts the order with a timeout of 10 seconds   *)
(* and, when the returned text passes its test, calls mark_order_sent.     *)
(* While the request is under way the keys go on ageing, and a key that    *)
(* was about to run out does.  pedidos returns a fixed text for a timeout  *)
(* and, for an HTTP error, a text that carries the body of the response.   *)
(***************************************************************************)

\* how requests.post and raise_for_status of pedidos can end
PedidosOutcomes == {"ok", "timeout", "http", "error"}

\* the text pedidos returns: ok says the API accepted the order, word that
\* "sucesso" or the check mark occurs in the text; echo says it occurs in
\* the body of an error response
pedidos(outcome, echo) ==
    [ok   |-> outcome = "ok",
     word |-> outcome = "ok" \/ (outcome = "http" /\ echo)]

\* if "sucesso" in result.lower() or the check mark in result
Accepted(result) == result.word

\* what a call of the tool leaves in finLast: the status, the cart and the
\* marker it found when it returned
Finalized(op, submitted, result) ==
    [op |-> op, submitted |-> submitted, ok |-> result.ok, marked |-> Accepted(result),
     status |-> session.status, cart |-> cart, completed |-> completedTtl]

\* finalizar_pedido_tool up to the request: an empty cart returns at once
FinalizarStart ==
    /\ finPc = "idle"
    /\ IF get_cart_items = <<>>
       THEN /\ finLast' = Finalized("empty", FALSE, pedidos("none", FALSE))
            /\ UNCHANGED <<finPc, finItems, finWaited>>
       ELSE /\ finPc' = "submit"
            /\ finItems' = get_cart_items
            /\ finWaited' = FALSE
            /\ UNCHANGED finLast
    /\ UNCHANGED <<cartVars, orderVars>>

\* the request is under way and a key runs out
FinalizarWait ==
    /\ finPc = "submit"
    /\ ~finWaited
    /\ CartClock
    /\ finWaited' = TRUE
    /\ UNCHANGED <<finPc, finItems, finLast>>

\* pedidos returns and the tool tests its text
FinalizarSubmit(outcome, echo) ==
    LET result == pedidos(outcome, echo)
    IN  /\ finPc = "submit"
        /\ finPc' = "idle"
        /\ finItems' = <<>>
        /\ finWaited' = FALSE
        /\ finLast' = Finalized("submit", TRUE, result)
        /\ IF Accepted(result)
           THEN mark_order_sent
           ELSE UNCHANGED <<cartVars, orderVars>>

\* time passes between two tools
FinalizarClock ==
    /\ finPc = "idle"
    /\ CartClock
    /\ UNCHANGED finVars

InitFinalize ==
    /\ finPc = "idle"
    /\ finItems = <<>>
    /\ finWaited = FALSE
    /\ finLast = [op |-> "none", submitted |-> FALSE, ok |-> FALSE, marked |-> FALSE,
                  status |-> "absent", cart |-> <<>>, completed |-> 0]

NextFinalize ==
    \/ FinalizarStart /\ UNCHANGED <<cbVars, lockVars, bufVars, lkVars, rtVars, apiVars, outVars, joinVars, atomVars, failVars, ctxVars, exVars, retryVars, cdVars>>
    \/ FinalizarWait /\ UNCHANGED <<cbVars, lockVars, bufVars, lkVars, rtVars, apiVars, outVars, joinVars, atomVars, failVars, ctxVars, exVars, retryVars, cdVars>>
    \/ \E outcome \in PedidosOutcomes, echo \in BOOLEAN :
          FinalizarSubmit(outcome, echo) /\ UNCHANGED <<cbVars, lockVars, bufVars, lkVars, rtVars, apiVars, outVars, joinVars, atomVars, failVars, ctxVars, exVars, retryVars, cdVars>>
    \/ FinalizarClock /\ UNCHANGED <<cbVars, lockVars, bufVars, lkVars, rtVars, apiVars, outVars, joinVars, atomVars, failVars, ctxVars, exVars, retryVars, cdVars>>
    \/ \E in \in OrderInputs : finPc = "idle" /\ AddItem(in) /\ UNCHANGED <<cbVars, lockVars, bufVars, lkVars, rtVars, apiVars, outVars, joinVars, atomVars, failVars, ctxVars, finVars, exVars, retryVars, cdVars>>
    \/ \E g \in BOOLEAN : GetOrderContext(g) /\ UNCHANGED <<cbVars, lockVars, bufVars, lkVars, rtVars, apiVars, outVars, joinVars, atomVars, failVars, finVars, exVars, retryVars, cdVars>>

(***************************************************************************)
(* Message debounce buffer                                                 *)
(* A fragment is the text of one inbound message, named by its arrival     *)
(* number; every fragment has non-blank text.  The webhook and the loop    *)
(* run on one event loop, so each runs atomically between two awaits.      *)
(* Time passes only in the loop's sleep; a fragment that arrives during a  *)
(* sleep may have arrived at its very end.  get_order_context, called for  *)
(* the drained turn, is the step GetOrderContext of the cart store.        *)
(***************************************************************************)

\* push_message_to_buffer(..., ttl_seconds: int = 300)
BUFFER_TTL == 300
\* await asyncio.sleep(5)
POLL_SECONDS == 5
\* while stall < 3
STALL_LIMIT == 3
\* fragments the customer sends
MaxFrags == 22

Frags == 1..MaxFrags

\* get_buffer_length: LLEN of the list
get_buffer_length == Len(msgbuf)

\* push_message_to_buffer: RPUSH, and EXPIRE only when the list has no TTL,
\* that is when this push created it
TtlAfterPush == IF msgbuf = <<>> THEN BUFFER_TTL ELSE msgbufTtl

\* " | ".join([m for m in msgs if m.strip()]): the fragments of the turn text
JoinedText(msgs) == msgs

\* the fragments named in a turn text
FragsOf(text) == {text[i] : i \in 1..Len(text)}

\* what push_message_to_buffer returns after its RPUSH: True, whatever the
\* list held
OnlyWhenEmpty(list) == list = <<>>
PushReturn(list) == TRUE

\* "if not buffer_sessions.get(num)"
AlwaysSchedule == TRUE
SchedulesRun == ~buffer_sessions

\* the least age of the newest fragment after one more sleep, counted up to
\* the quiescence period
AgeAfterSleep(age) ==
    IF age < 0 THEN 0
    ELSE IF age + POLL_SECONDS > STALL_LIMIT * POLL_SECONDS
         THEN STALL_LIMIT * POLL_SECONDS
         ELSE age + POLL_SECONDS

\* webhook, from the push on: the fragment is appended; the first fragment
\* since the flag was clear sets the flag and creates the loop's task
Webhook ==
    /\ nextFrag <= MaxFrags
    /\ msgbuf' = Append(msgbuf, nextFrag)
    /\ msgbufTtl' = TtlAfterPush
    /\ nextFrag' = nextFrag + 1
    /\ lastAge' = IF loopPc = "sleep" THEN 0 - 1 ELSE 0
    /\ IF PushReturn(msgbuf) /\ SchedulesRun
       THEN /\ buffer_sessions' = TRUE
            /\ loopPc' = "top"
            /\ loops' = loops + 1
       ELSE UNCHANGED <<buffer_sessions, loopPc, loops>>
    /\ UNCHANGED <<prev, stall, included, drainAge>>

\* _enqueue_buffer_job, head of the outer loop: prev = get_buffer_length(n);
\* an empty buffer ends the task, whose finally clears the flag
LoopTop ==
    /\ loopPc = "top"
    /\ IF get_buffer_length = 0
       THEN /\ loopPc' = "idle"
            /\ buffer_sessions' = FALSE
            /\ loops' = loops - 1
            /\ prev' = 0
       ELSE /\ loopPc' = "sleep"
            /\ prev' = get_buffer_length
            /\ UNCHANGED <<buffer_sessions, loops>>
    /\ stall' = 0
    /\ UNCHANGED <<msgbuf, msgbufTtl, nextFrag, included, lastAge, drainAge>>

\* one round of the inner loop: sleep, poll, count; at the third poll in a
\* row without growth pop_all_messages drains the list and the joined text
\* is handed to _enqueue_process_job, or the task ends if there is no text
LoopPoll ==
    LET ttl     == IF msgbufTtl > POLL_SECONDS THEN msgbufTtl - POLL_SECONDS ELSE 0
        waiting == IF ttl = 0 THEN <<>> ELSE msgbuf
        curr    == Len(waiting)
        grew    == curr > prev
        stalled == IF grew THEN 0 ELSE stall + 1
        final   == JoinedText(waiting)
        age     == AgeAfterSleep(lastAge)
    IN  /\ loopPc = "sleep"
        /\ lastAge' = age
        /\ IF stalled < STALL_LIMIT
           THEN /\ msgbuf' = waiting
                /\ msgbufTtl' = IF waiting = <<>> THEN 0 ELSE ttl
                /\ prev' = IF grew THEN curr ELSE prev
                /\ stall' = stalled
                /\ UNCHANGED <<loopPc, buffer_sessions, included, loops, drainAge>>
           ELSE /\ msgbuf' = <<>>
                /\ msgbufTtl' = 0
                /\ prev' = 0
                /\ stall' = 0
                /\ included' = [f \in Frags |->
                                  IF f \in FragsOf(final) THEN included[f] + 1
                                  ELSE included[f]]
                /\ IF final = <<>>
                   THEN /\ loopPc' = "idle"
                        /\ buffer_sessions' = FALSE
                        /\ loops' = loops - 1
                        /\ UNCHANGED drainAge
                   ELSE /\ loopPc' = "enqueue"
                        /\ drainAge' = age
                        /\ UNCHANGED <<buffer_sessions, loops>>
        /\ UNCHANGED nextFrag

\* await _enqueue_process_job(n, final, mids) returns; back to the head
LoopEnqueued ==
    /\ loopPc = "enqueue"
    /\ loopPc' = "top"
    /\ drainAge' = 0 - 1
    /\ UNCHANGED <<msgbuf, msgbufTtl, buffer_sessions, prev, stall, nextFrag, included,
                   loops, lastAge>>

InitBuffer ==
    /\ msgbuf = <<>>
    /\ msgbufTtl = 0
    /\ buffer_sessions = FALSE
    /\ loopPc = "idle"
    /\ prev = 0
    /\ stall = 0
    /\ nextFrag = 1
    /\ included = [f \in Frags |-> 0]
    /\ loops = 0
    /\ lastAge = 0
    /\ drainAge = 0 - 1

NextBuffer ==
    \/ Webhook /\ UNCHANGED <<cbVars, lockVars, cartVars, lkVars, orderVars, rtVars, apiVars, outVars, joinVars, atomVars, failVars, ctxVars, finVars, exVars, retryVars, cdVars>>
    \/ LoopTop /\ UNCHANGED <<cbVars, lockVars, cartVars, lkVars, orderVars, rtVars, apiVars, outVars, joinVars, atomVars, failVars, ctxVars, finVars, exVars, retryVars, cdVars>>
    \/ LoopPoll /\ UNCHANGED <<cbVars, lockVars, cartVars, lkVars, orderVars, rtVars, apiVars, outVars, joinVars, atomVars, failVars, ctxVars, finVars, exVars, retryVars, cdVars>>
    \/ LoopEnqueued /\ UNCHANGED <<cbVars, lockVars, cartVars, lkVars, orderVars, rtVars, apiVars, outVars, joinVars, atomVars, failVars, ctxVars, finVars, exVars, retryVars, cdVars>>

(***************************************************************************)
(* estoque_preco: the stock/price lookup behind the circuit breaker        *)
(* The cache entry lives 6 hours, far beyond the circuit's clock; its      *)
(* expiry is a step of its own.                                            *)
(***************************************************************************)

\* MAX_RETRIES = 3
MAX_RETRIES == 3

\* what requests.get and raise_for_status can do
Outcomes == {"ok", "notjson", "timeout", "http5xx", "http4xx", "error"}

\* what a step of the lookup leaves in lkLast: sent says a request went out,
\* wasOpen what check_circuit_open would have answered at that moment
Looked(op, sent, wasOpen, result) ==
    [op |-> op, sent |-> sent, wasOpen |-> wasOpen, result |-> result]

\* the answer served without the service: the cached one if there is one
Fallback(message) == IF lkCached THEN "cached" ELSE message

\* estoque_preco up to the retry loop: an open circuit answers from the cache
\* or with the fixed message, a closed one enters the loop
LookupStart ==
    /\ lkPc = "idle"
    /\ IF check_circuit_open
       THEN /\ lkLast' = Looked("blocked", FALSE, TRUE, Fallback("instavel"))
            /\ UNCHANGED <<lkPc, lkAttempt>>
       ELSE /\ lkPc' = "attempt"
            /\ lkAttempt' = 0
            /\ lkLast' = Looked("enter", FALSE, FALSE, "none")
    /\ lkOutcome' = "none"
    /\ UNCHANGED <<cbVars, lkCached>>

\* one round of "for attempt in range(MAX_RETRIES)": the request is sent,
\* and its outcome reported to the circuit breaker
LookupAttempt(outcome) ==
    LET again == outcome = "timeout" /\ lkAttempt < MAX_RETRIES - 1
        result == CASE outcome = "ok"      -> "fresh"
                    [] outcome = "notjson" -> "text"
                    [] outcome = "timeout" -> IF again THEN "none" ELSE Fallback("lenta")
                    [] OTHER               -> "erro"
    IN  /\ lkPc = "attempt"
        /\ CASE outcome \in {"ok", "notjson"}              -> ReportSuccess
             [] outcome \in {"timeout", "http5xx", "error"} -> ReportFailure
             [] OTHER                                        -> UNCHANGED cbVars
        /\ lkCached' = (lkCached \/ outcome = "ok")
        /\ lkPc' = IF again THEN "attempt" ELSE "idle"
        /\ lkAttempt' = IF again THEN lkAttempt + 1 ELSE 0
        /\ lkLast' = Looked("request", TRUE, check_circuit_open, result)
        /\ lkOutcome' = outcome

\* the cache entry expires
CacheExpire ==
    /\ lkCached
    /\ lkCached' = FALSE
    /\ UNCHANGED <<cbVars, lkPc, lkAttempt, lkLast, lkOutcome>>

InitLookup ==
    /\ lkPc = "idle"
    /\ lkAttempt = 0
    /\ lkCached = FALSE
    /\ lkLast = Looked("none", FALSE, FALSE, "none")
    /\ lkOutcome = "none"

NextLookup ==
    \/ LookupStart /\ UNCHANGED <<lockVars, cartVars, bufVars, orderVars, rtVars, apiVars, outVars, joinVars, atomVars, failVars, ctxVars, finVars, exVars, retryVars, cdVars>>
    \/ \E outcome \in Outcomes : LookupAttempt(outcome) /\ UNCHANGED <<lockVars, cartVars, bufVars, orderVars, rtVars, apiVars, outVars, joinVars, atomVars, failVars, ctxVars, finVars, exVars, retryVars, cdVars>>
    \/ CacheExpire /\ UNCHANGED <<lockVars, cartVars, bufVars, orderVars, rtVars, apiVars, outVars, joinVars, atomVars, failVars, ctxVars, finVars, exVars, retryVars, cdVars>>
    \/ CircuitTick /\ UNCHANGED <<lockVars, cartVars, bufVars, lkVars, orderVars, rtVars, apiVars, outVars, joinVars, atomVars, failVars, ctxVars, finVars, exVars, retryVars, cdVars>>

(***************************************************************************)
(* Conversation router: responder nodes and their hallucination check      *)
(* A response is the set of things its text asserts; the tools of an        *)
(* execution are the names in the tool_calls of its messages.               *)
(***************************************************************************)

\* graph.invoke(initial_state, config) is given no recursion_limit: the
\* graph runs LangGraph's default number of node executions, and one more
\* raises GraphRecursionError
RECURSION_LIMIT == 25

\* a graph that goes on whatever it has run
NeverOutOfSteps(steps) == FALSE
OutOfSteps(steps) == steps >= RECURSION_LIMIT

\* "adicionei"/"adicionado", "encontrei", "pedido confirmado"..., "total: R$ n"
Kinds == {"added", "found", "confirmed", "total"}

\* the tools each responder can call that the checks look for
VendedorTools == {"add_item_tool", "busca_analista", "get_pending_suggestions_tool"}
CaixaTools == {"calcular_total_tool", "finalizar_pedido_tool"}

\* _check_hallucination of vendedor_node
VendedorHallucination(says, tools) ==
    \/ "added" \in says /\ "add_item_tool" \notin tools
    \/ /\ "found" \in says
       /\ "busca_analista" \notin tools
       /\ "get_pending_suggestions_tool" \notin tools

\* _check_cashier_hallucination of caixa_node
CaixaHallucination(says, tools) ==
    \/ "confirmed" \in says /\ "finalizar_pedido_tool" \notin tools
    \/ /\ "total" \in says
       /\ "calcular_total_tool" \notin tools
       /\ "finalizar_pedido_tool" \notin tools

\* a flagged first response is retried, a flagged retry is not
RetryWhileFlagged(flagged, phase) == flagged
NeedsRetry(flagged, phase) == flagged /\ phase = "first"

\* what a node leaves as final_response
Response(says, tools) == [kind |-> "response", says |-> says, tools |-> tools]
FallbackText == [kind |-> "fallback", says |-> {}, tools |-> {}]
ErrorText == [kind |-> "error", says |-> {}, tools |-> {}]
NoText == [kind |-> "none", says |-> {}, tools |-> {}]

\* the words of the classifier's answer that the orchestrator looks for
IntentWords == {"checkout", "caixa"}

\* one classification: there was no conversation to classify, llm.invoke
\* raised, or it answered a text holding some of the words looked for
NoClassification == [kind |-> "none", has |-> {}]
Classifications ==
    {[kind |-> "empty", has |-> {}], [kind |-> "raised", has |-> {}]}
        \cup {[kind |-> "output", has |-> h] : h \in SUBSET IntentWords}

\* orchestrator_node: the intent it returns
SalesUnlessNamed(cls) == IF cls.kind = "output" /\ "vendas" \notin cls.has THEN "checkout" ELSE "vendas"
Normalise(cls) ==
    IF cls.kind = "output" /\ ("checkout" \in cls.has \/ "caixa" \in cls.has)
    THEN "checkout"
    ELSE "vendas"

\* run_agent_langgraph builds the graph and invokes it from the orchestrator
TurnStart ==
    /\ rtNode \in {"none", "done"}
    /\ rtNode' = "orchestrator"
    /\ rtPhase' = "first"
    /\ rtInvocations' = 0
    /\ rtFirstFlagged' = FALSE
    /\ rtHops' = 0
    /\ rtSteps' = 0
    /\ rtCls' = NoClassification
    /\ rtOut' = NoText

\* orchestrator_node and route_by_intent: checkout goes to caixa, anything
\* else to vendedor
Orchestrate(cls) ==
    /\ rtNode = "orchestrator"
    /\ ~OutOfSteps(rtSteps)
    /\ rtSteps' = rtSteps + 1
    /\ rtNode' = IF Normalise(cls) = "checkout" THEN "caixa" ELSE "vendedor"
    /\ rtCls' = cls
    /\ rtPhase' = "first"
    /\ rtInvocations' = 0
    /\ rtFirstFlagged' = FALSE
    /\ UNCHANGED <<rtHops, rtOut>>

\* vendedor_node, one agent.invoke and what follows it up to the next one or
\* to the node's return; the edge from vendedor ends the graph
VendedorInvoke(says, tools) ==
    LET flagged == VendedorHallucination(says, tools)
    IN  /\ rtNode = "vendedor"
        /\ rtPhase = "first" => ~OutOfSteps(rtSteps)
        /\ rtSteps' = IF rtPhase = "first" THEN rtSteps + 1 ELSE rtSteps
        /\ rtInvocations' = rtInvocations + 1
        /\ IF NeedsRetry(flagged, rtPhase)
           THEN /\ rtPhase' = "retry"
                /\ rtFirstFlagged' = TRUE
                /\ UNCHANGED <<rtNode, rtOut>>
           ELSE /\ rtNode' = "done"
                /\ rtOut' = IF flagged THEN FallbackText ELSE Response(says, tools)
                /\ UNCHANGED <<rtPhase, rtFirstFlagged>>
        /\ UNCHANGED <<rtHops, rtCls>>

\* caixa_node, likewise.  response_lower is bound only after a flagged first
\* response, so a first response that passes the check makes the node raise
\* at its hand-back test and run_agent_langgraph answer with its error text;
\* a response with "para alterar itens" hands the turn back
CaixaInvoke(says, tools, handback) ==
    LET flagged == CaixaHallucination(says, tools)
        back    == handback /\ ~flagged
    IN  /\ rtNode = "caixa"
        /\ rtPhase = "first" => ~OutOfSteps(rtSteps)
        /\ rtSteps' = IF rtPhase = "first" THEN rtSteps + 1 ELSE rtSteps
        /\ rtInvocations' = rtInvocations + 1
        /\ IF NeedsRetry(flagged, rtPhase)
           THEN /\ rtPhase' = "retry"
                /\ rtFirstFlagged' = TRUE
                /\ UNCHANGED <<rtNode, rtOut, rtHops>>
           ELSE IF rtPhase = "first"
           THEN /\ rtNode' = "done"
                /\ rtOut' = ErrorText
                /\ UNCHANGED <<rtPhase, rtFirstFlagged, rtHops>>
           ELSE /\ rtNode' = IF back THEN "orchestrator" ELSE "done"
                /\ rtHops' = IF back THEN rtHops + 1 ELSE rtHops
                /\ rtOut' = IF flagged THEN FallbackText ELSE Response(says, tools)
                /\ UNCHANGED <<rtPhase, rtFirstFlagged>>
        /\ UNCHANGED rtCls

\* the node that is next would be one execution too many: graph.invoke
\* raises and run_agent_langgraph answers with its error text
GraphRecursion ==
    /\ rtNode \in {"orchestrator", "vendedor", "caixa"}
    /\ rtPhase = "first"
    /\ OutOfSteps(rtSteps)
    /\ rtNode' = "done"
    /\ rtOut' = ErrorText
    /\ UNCHANGED <<rtPhase, rtInvocations, rtFirstFlagged, rtHops, rtSteps, rtCls>>

InitRouter ==
    /\ rtNode = "none"
    /\ rtPhase = "first"
    /\ rtInvocations = 0
    /\ rtFirstFlagged = FALSE
    /\ rtHops = 0
    /\ rtSteps = 0
    /\ rtCls = NoClassification
    /\ rtOut = NoText

NextRouter ==
    \/ TurnStart /\ UNCHANGED <<cbVars, lockVars, cartVars, bufVars, lkVars, orderVars, apiVars, outVars, joinVars, atomVars, failVars, ctxVars, finVars, exVars, retryVars, cdVars>>
    \/ GraphRecursion /\ UNCHANGED <<cbVars, lockVars, cartVars, bufVars, lkVars, orderVars, apiVars, outVars, joinVars, atomVars, failVars, ctxVars, finVars, exVars, retryVars, cdVars>>
    \/ \E cls \in Classifications :
          Orchestrate(cls) /\ UNCHANGED <<cbVars, lockVars, cartVars, bufVars, lkVars, orderVars, apiVars, outVars, joinVars, atomVars, failVars, ctxVars, finVars, exVars, retryVars, cdVars>>
    \/ \E says \in SUBSET Kinds, tools \in SUBSET VendedorTools :
          VendedorInvoke(says, tools) /\ UNCHANGED <<cbVars, lockVars, cartVars, bufVars, lkVars, orderVars, apiVars, outVars, joinVars, atomVars, failVars, ctxVars, finVars, exVars, retryVars, cdVars>>
    \/ \E says \in SUBSET Kinds, tools \in SUBSET CaixaTools, handback \in BOOLEAN :
          CaixaInvoke(says, tools, handback) /\ UNCHANGED <<cbVars, lockVars, cartVars, bufVars, lkVars, orderVars, apiVars, outVars, joinVars, atomVars, failVars, ctxVars, finVars, exVars, retryVars, cdVars>>

(***************************************************************************)
(* The cart across the attempts of vendedor_node                           *)
(* The tools of an attempt act on Redis while agent.invoke runs; the node  *)
(* then keeps or discards the attempt's response.  The customer asks once  *)
(* for one product, and an attempt that calls add_item_tool adds it.       *)
(***************************************************************************)

\* the item the customer asked for, as add_item_tool passes it on
AskedOnce == [valid |-> TRUE, item |-> Item("Arroz", Num(1), 0, 10, <<>>)]

\* the classifications that send the turn to vendedor
SalesClassifications == {cls \in Classifications : Normalise(cls) = "vendas"}

RetryTurnStart ==
    /\ TurnStart
    /\ rySnap' = get_cart_items
    /\ UNCHANGED <<cartVars, orderVars>>

RetryOrchestrate(cls) ==
    /\ Orchestrate(cls)
    /\ UNCHANGED <<cartVars, orderVars, rySnap>>

\* one agent.invoke of vendedor_node with the tools it called
RetryVendedor(says, tools) ==
    /\ VendedorInvoke(says, tools)
    /\ IF "add_item_tool" \in tools
       THEN AddItem(AskedOnce)
       ELSE UNCHANGED <<cartVars, orderVars>>
    /\ UNCHANGED rySnap

InitRetry == rySnap = <<>>

NextRetry ==
    \/ RetryTurnStart /\ UNCHANGED <<cbVars, lockVars, bufVars, lkVars, apiVars, outVars, joinVars, atomVars, failVars, ctxVars, finVars, exVars, cdVars>>
    \/ \E cls \in SalesClassifications :
          RetryOrchestrate(cls) /\ UNCHANGED <<cbVars, lockVars, bufVars, lkVars, apiVars, outVars, joinVars, atomVars, failVars, ctxVars, finVars, exVars, cdVars>>
    \/ \E says \in SUBSET Kinds, tools \in SUBSET VendedorTools :
          RetryVendedor(says, tools) /\ UNCHANGED <<cbVars, lockVars, bufVars, lkVars, apiVars, outVars, joinVars, atomVars, failVars, ctxVars, finVars, exVars, cdVars>>

(***************************************************************************)
(* A customer's turns and the writers of the cart and the session          *)
(* The tools of the responders run inside graph.invoke, between the        *)
(* acquire and the release of run_agent_langgraph.  get_order_context is   *)
(* called by _enqueue_buffer_job before the turn is enqueued, and          *)
(* clear_cart by the webhook on a message of the human attendant.          *)
(***************************************************************************)

\* the item the responder adds in these turns
TurnInputs == {in \in AddInputs : in.item.produto = "Feijao"}

\* add_item_tool called by the responder of turn w
TurnAdd(w, in) ==
    /\ turnPc[w] = "router"
    /\ AddItem(in)
    /\ UNCHANGED lockVars

\* remove_item_tool called by the responder of turn w
TurnRemove(w, index) ==
    /\ turnPc[w] = "router"
    /\ RemoveItem(index)
    /\ UNCHANGED lockVars

\* finalizar_pedido_tool called by the responder of turn w
TurnMarkSent(w) ==
    /\ turnPc[w] = "router"
    /\ MarkSent
    /\ UNCHANGED lockVars

\* reset_pedido_tool called by the responder of turn w
TurnReset(w) ==
    /\ turnPc[w] = "router"
    /\ ResetPedido
    /\ UNCHANGED lockVars

\* _enqueue_buffer_job: get_order_context(n, final) on the drained text
BufferContext(is_greeting) ==
    /\ GetOrderContext(is_greeting)
    /\ UNCHANGED lockVars

\* webhook, from_me: the attendant wrote to the customer, clear_cart(tel)
TakeoverClear ==
    /\ ClearCart
    /\ UNCHANGED lockVars

NextTurn ==
    \/ \E w \in Workers : RunAgentStart(w) /\ UNCHANGED <<cbVars, cartVars, bufVars, lkVars, orderVars, rtVars, apiVars, outVars, joinVars, atomVars, failVars, ctxVars, finVars, exVars, retryVars, cdVars>>
    \/ \E w \in Workers : RouterDone(w) /\ UNCHANGED <<cbVars, cartVars, bufVars, lkVars, orderVars, rtVars, apiVars, outVars, joinVars, atomVars, failVars, ctxVars, finVars, exVars, retryVars, cdVars>>
    \/ \E w \in Workers : RunAgentFinish(w) /\ UNCHANGED <<cbVars, cartVars, bufVars, lkVars, orderVars, rtVars, apiVars, outVars, joinVars, atomVars, failVars, ctxVars, finVars, exVars, retryVars, cdVars>>
    \/ LockExpire /\ UNCHANGED <<cbVars, cartVars, bufVars, lkVars, orderVars, rtVars, apiVars, outVars, joinVars, atomVars, failVars, ctxVars, finVars, exVars, retryVars, cdVars>>
    \/ \E w \in Workers, in \in TurnInputs : TurnAdd(w, in) /\ UNCHANGED <<cbVars, bufVars, lkVars, rtVars, apiVars, outVars, joinVars, atomVars, failVars, ctxVars, finVars, exVars, retryVars, cdVars>>
    \/ \E w \in Workers, index \in RemoveInputs : TurnRemove(w, index) /\ UNCHANGED <<cbVars, bufVars, lkVars, rtVars, apiVars, outVars, joinVars, atomVars, failVars, ctxVars, finVars, exVars, retryVars, cdVars>>
    \/ \E w \in Workers : TurnMarkSent(w) /\ UNCHANGED <<cbVars, bufVars, lkVars, rtVars, apiVars, outVars, joinVars, atomVars, failVars, ctxVars, finVars, exVars, retryVars, cdVars>>
    \/ \E w \in Workers : TurnReset(w) /\ UNCHANGED <<cbVars, bufVars, lkVars, rtVars, apiVars, outVars, joinVars, atomVars, failVars, ctxVars, finVars, exVars, retryVars, cdVars>>
    \/ \E g \in BOOLEAN : BufferContext(g) /\ UNCHANGED <<cbVars, bufVars, lkVars, rtVars, apiVars, outVars, joinVars, atomVars, failVars, finVars, exVars, retryVars, cdVars>>
    \/ TakeoverClear /\ UNCHANGED <<cbVars, bufVars, lkVars, rtVars, apiVars, outVars, joinVars, atomVars, failVars, ctxVars, finVars, exVars, retryVars, cdVars>>

(***************************************************************************)
(* The exit paths of run_agent_langgraph                                   *)
(* A text is the string and whether it carries the text of an exception.   *)
(* The history is read and the user message saved under try/except before  *)
(* the try block of the graph; graph.invoke returns a state or raises what *)
(* the orchestrator, a responder or a tool raised.  A process that dies    *)
(* runs no finally block.                                                  *)
(***************************************************************************)

\* a string, and whether part of it is the text of an exception
Text(string, detail) == [string |-> string, detail |-> detail]

BusyText == Text("Estou finalizando sua ultima solicitacao", FALSE)
RepeatText == Text("Desculpe, tive um problema ao processar", FALSE)
NotProcessedText == Text("Desculpe, nao consegui processar", FALSE)

\* "not output or not output.strip()"
IsBlank(text) == text.string \in {"", " "}

\* final_response of the state graph.invoke returns
FinalResponses == {Text("resposta", FALSE), Text(" ", FALSE), Text("", FALSE)}

\* what graph.invoke does: it raises, or returns a state with a
\* final_response and messages that hold a usable AI message or none
GraphOutcomes ==
    [raised : BOOLEAN, final : FinalResponses, content : BOOLEAN]

\* _extract_response(result): the last AI message with text, or a fixed text
ExtractResponse(content) ==
    IF content THEN Text("mensagem", FALSE) ELSE NotProcessedText

\* steps 6 of run_agent_langgraph: final_response, else the messages, else
\* a fixed text
OutputOf(state) ==
    LET first  == state.final
        second == IF IsBlank(first) THEN ExtractResponse(state.content) ELSE first
    IN  IF IsBlank(second) THEN RepeatText ELSE second

\* an answer built from the exception
Explained(e) == Text("Tive um problema tecnico: " \o e, TRUE)
\* "except Exception as e": the output is a literal
Apology(e) == Text("Tive um problema tecnico, tente novamente.", FALSE)

\* the dict an invocation returns; raised is kept beside it
Result(output, error, raised, returned) ==
    [output |-> output, error |-> error, raised |-> raised, returned |-> returned]

NoResult == Result(Text("", FALSE), Text("None", FALSE), FALSE, FALSE)

\* the dict after graph.invoke
TurnResult(outcome) ==
    IF outcome.raised
    THEN Result(Apology("erro"), Text("erro", TRUE), TRUE, FALSE)
    ELSE Result(OutputOf(outcome), Text("None", FALSE), FALSE, FALSE)

\* acquire_agent_lock and, without a token, the busy dict
ExStart(w) ==
    /\ RunAgentStart(w)
    /\ exHist' = [exHist EXCEPT ![w] = "pending"]
    /\ exOut' = [exOut EXCEPT ![w] =
                    IF Busy(acquire_agent_lock)
                    THEN Result(BusyText, Text("busy", FALSE), FALSE, TRUE)
                    ELSE NoResult]

\* history_handler.messages and add_user_message: an exception of either is
\* logged and the turn goes on
ExHistory(w, read_raises, write_raises) ==
    /\ turnPc[w] = "router"
    /\ exHist[w] = "pending"
    /\ exHist' = [exHist EXCEPT ![w] = IF read_raises \/ write_raises
                                        THEN "logged" ELSE "done"]
    /\ UNCHANGED <<lockVars, exOut>>

\* the try block: graph.invoke and the output taken from its state
ExRouter(w, outcome) ==
    /\ exHist[w] # "pending"
    /\ RouterDone(w)
    /\ exOut' = [exOut EXCEPT ![w] = TurnResult(outcome)]
    /\ UNCHANGED exHist

\* add_ai_message under try/except when nothing was raised, then the
\* finally block and the return
ExFinish(w, save_raises) ==
    /\ RunAgentFinish(w)
    /\ exOut' = [exOut EXCEPT ![w].returned = TRUE]
    /\ exHist' = [exHist EXCEPT ![w] = IF exOut[w].raised THEN @
                                        ELSE IF save_raises THEN "logged" ELSE "saved"]

\* the process of the invocation dies while it holds the lock
ExCrash(w) ==
    /\ turnPc[w] \in {"router", "saving"}
    /\ turnPc' = [turnPc EXCEPT ![w] = "dead"]
    /\ lockLast' = [op |-> "crash", w |-> w, own |-> turnToken[w], held |-> lockVal]
    /\ UNCHANGED <<lockVal, nextToken, turnToken, exVars>>

InitExit ==
    /\ exHist = [w \in Workers |-> "pending"]
    /\ exOut = [w \in Workers |-> NoResult]

NextExit ==
    \/ \E w \in Workers : ExStart(w) /\ UNCHANGED <<cbVars, cartVars, bufVars, lkVars, orderVars, rtVars, apiVars, outVars, joinVars, atomVars, failVars, ctxVars, finVars, retryVars, cdVars>>
    \/ \E w \in Workers, r \in BOOLEAN, u \in BOOLEAN :
          ExHistory(w, r, u) /\ UNCHANGED <<cbVars, cartVars, bufVars, lkVars, orderVars, rtVars, apiVars, outVars, joinVars, atomVars, failVars, ctxVars, finVars, retryVars, cdVars>>
    \/ \E w \in Workers, outcome \in GraphOutcomes :
          ExRouter(w, outcome) /\ UNCHANGED <<cbVars, cartVars, bufVars, lkVars, orderVars, rtVars, apiVars, outVars, joinVars, atomVars, failVars, ctxVars, finVars, retryVars, cdVars>>
    \/ \E w \in Workers, a \in BOOLEAN :
          ExFinish(w, a) /\ UNCHANGED <<cbVars, cartVars, bufVars, lkVars, orderVars, rtVars, apiVars, outVars, joinVars, atomVars, failVars, ctxVars, finVars, retryVars, cdVars>>
    \/ \E w \in Workers : ExCrash(w) /\ UNCHANGED <<cbVars, cartVars, bufVars, lkVars, orderVars, rtVars, apiVars, outVars, joinVars, atomVars, failVars, ctxVars, finVars, retryVars, cdVars>>
    \/ LockExpire /\ UNCHANGED <<cbVars, cartVars, bufVars, lkVars, orderVars, rtVars, apiVars, outVars, joinVars, atomVars, failVars, ctxVars, finVars, exVars, retryVars, cdVars>>

(***************************************************************************)
(* The coordination primitives when Redis does not answer                  *)
(* get_redis_client keeps the client it once connected; without one it     *)
(* tries to connect at every call.  A primitive that gets no client takes  *)
(* its "client is None" branch; one that holds a client whose server is    *)
(* down has its command raise and takes its except branch.                 *)
(***************************************************************************)

\* fragments pushed in these behaviours
MaxOutFrags == 3

\* get_redis_client() returns a client
HasClient == redisClient \/ redisUp

\* what a primitive leaves in outLast; down: the server did not answer it
Called(op, result) ==
    [op |-> op, down |-> ~redisUp, client |-> HasClient, result |-> result]

\* push_message_to_buffer: without a client the payload goes to
\* _local_buffer; with one, RPUSH and EXPIRE, or False when they raise
push_message_to_buffer ==
    /\ nextFrag <= MaxOutFrags
    /\ nextFrag' = nextFrag + 1
    /\ redisClient' = HasClient
    /\ IF ~HasClient
       THEN /\ localBuffer' = Append(localBuffer, nextFrag)
            /\ outLast' = Called("push", "local")
            /\ UNCHANGED <<msgbuf, msgbufTtl>>
       ELSE IF redisUp
       THEN /\ msgbuf' = Append(msgbuf, nextFrag)
            /\ msgbufTtl' = TtlAfterPush
            /\ outLast' = Called("push", "store")
            /\ UNCHANGED localBuffer
       ELSE /\ outLast' = Called("push", "false")
            /\ UNCHANGED <<msgbuf, msgbufTtl, localBuffer>>
    /\ UNCHANGED <<buffer_sessions, loopPc, prev, stall, included, loops, lastAge, drainAge>>
    /\ UNCHANGED <<redisUp, cbVars, cartVars, orderVars>>

\* pop_all_messages: without a client _local_buffer is returned and popped;
\* with one, LRANGE and DELETE in a pipeline, or ([], None) when it raises
pop_all_messages ==
    /\ redisClient' = HasClient
    /\ IF ~HasClient
       THEN /\ localBuffer' = <<>>
            /\ outLast' = Called("pop", IF localBuffer = <<>> THEN "empty" ELSE "local")
            /\ UNCHANGED <<msgbuf, msgbufTtl>>
       ELSE IF redisUp
       THEN /\ msgbuf' = <<>>
            /\ msgbufTtl' = 0
            /\ outLast' = Called("pop", IF msgbuf = <<>> THEN "empty" ELSE "store")
            /\ UNCHANGED localBuffer
       ELSE /\ outLast' = Called("pop", "empty")
            /\ UNCHANGED <<msgbuf, msgbufTtl, localBuffer>>
    /\ UNCHANGED <<buffer_sessions, loopPc, prev, stall, nextFrag, included, loops,
                   lastAge, drainAge>>
    /\ UNCHANGED <<redisUp, cbVars, cartVars, orderVars>>

\* get_order_context: get_order_session returns None without a client or
\* when its GET raises, start_order_session returns False, and the context
\* is that of a new conversation
get_order_context(is_greeting) ==
    /\ redisClient' = HasClient
    /\ IF redisUp
       THEN /\ GetOrderContext(is_greeting)
            /\ outLast' = Called("context", session.status)
       ELSE /\ outLast' = Called("context", "absent")
            /\ ctxText' = ContextText("absent", FALSE, is_greeting)
            /\ UNCHANGED <<cartVars, orderVars>>
    /\ UNCHANGED <<redisUp, localBuffer, cbVars, bufVars>>

\* add_item_to_cart: False without a client or when a command raises
add_item_to_cart(in) ==
    /\ redisClient' = HasClient
    /\ IF redisUp
       THEN /\ AddItem(in)
            /\ outLast' = Called("add", IF in.valid THEN "true" ELSE "false")
       ELSE /\ outLast' = Called("add", "false")
            /\ UNCHANGED <<cartVars, orderVars>>
    /\ UNCHANGED <<redisUp, localBuffer, cbVars, bufVars>>

\* check_circuit_open as a call: False without a client or when GET raises
CheckCircuitOpen ==
    /\ redisClient' = HasClient
    /\ outLast' = Called("check", IF redisUp /\ check_circuit_open THEN "open" ELSE "closed")
    /\ UNCHANGED <<redisUp, localBuffer, cbVars, cartVars, orderVars, bufVars>>

\* report_failure as a call: returns silently without a client or when INCR
\* raises
ReportFailureCall ==
    /\ redisClient' = HasClient
    /\ IF redisUp THEN ReportFailure ELSE UNCHANGED cbVars
    /\ outLast' = Called("failure", "none")
    /\ UNCHANGED <<redisUp, localBuffer, cartVars, orderVars, bufVars>>

\* the server stops answering, or answers again
RedisToggle ==
    /\ redisUp' = ~redisUp
    /\ UNCHANGED <<redisClient, localBuffer, outLast, cbVars, cartVars, orderVars, bufVars>>

InitOutage ==
    /\ redisUp = TRUE
    /\ redisClient = FALSE
    /\ localBuffer = <<>>
    /\ outLast = [op |-> "none", down |-> FALSE, client |-> FALSE, result |-> "none"]

NextOutage ==
    \/ push_message_to_buffer /\ UNCHANGED <<lockVars, lkVars, rtVars, apiVars, joinVars, atomVars, failVars, ctxVars, finVars, exVars, retryVars, cdVars>>
    \/ pop_all_messages /\ UNCHANGED <<lockVars, lkVars, rtVars, apiVars, joinVars, atomVars, failVars, ctxVars, finVars, exVars, retryVars, cdVars>>
    \/ \E g \in BOOLEAN : get_order_context(g) /\ UNCHANGED <<lockVars, lkVars, rtVars, apiVars, joinVars, atomVars, failVars, finVars, exVars, retryVars, cdVars>>
    \/ \E in \in TurnInputs : add_item_to_cart(in) /\ UNCHANGED <<lockVars, lkVars, rtVars, apiVars, joinVars, atomVars, failVars, ctxVars, finVars, exVars, retryVars, cdVars>>
    \/ CheckCircuitOpen /\ UNCHANGED <<lockVars, lkVars, rtVars, apiVars, joinVars, atomVars, failVars, ctxVars, finVars, exVars, retryVars, cdVars>>
    \/ ReportFailureCall /\ UNCHANGED <<lockVars, lkVars, rtVars, apiVars, joinVars, atomVars, failVars, ctxVars, finVars, exVars, retryVars, cdVars>>
    \/ RedisToggle /\ UNCHANGED <<lockVars, lkVars, rtVars, apiVars, joinVars, atomVars, failVars, ctxVars, finVars, exVars, retryVars, cdVars>>

(***************************************************************************)
(* The text of a consolidated turn                                         *)
(* A fragment's text is a word, a blank, or nothing; a turn text is the    *)
(* sequence of the texts and delimiters it is made of.                     *)
(***************************************************************************)

\* fragments in the list at a time
MaxJoin == 3

\* the texts the webhook pushes
JoinTexts == {"a", "b", " ", ""}

\* " | "
Delimiter == " | "

\* pop_all_messages: "if txt: texts.append(txt)" over the payloads in the
\* order of LRANGE 0 -1
RECURSIVE PoppedTexts(_)
PoppedTexts(raw) ==
    IF raw = <<>> THEN <<>>
    ELSE IF Head(raw) # "" THEN <<Head(raw)>> \o PoppedTexts(Tail(raw))
         ELSE PoppedTexts(Tail(raw))

\* "[m for m in msgs if m.strip()]"
RECURSIVE Stripped(_)
Stripped(msgs) ==
    IF msgs = <<>> THEN <<>>
    ELSE IF Head(msgs) \notin {"", " "} THEN <<Head(msgs)>> \o Stripped(Tail(msgs))
         ELSE Stripped(Tail(msgs))

\* " | ".join(msgs)
RECURSIVE JoinNewestFirst(_)
JoinNewestFirst(msgs) ==
    IF msgs = <<>> THEN <<>>
    ELSE IF Len(msgs) = 1 THEN msgs
         ELSE JoinNewestFirst(Tail(msgs)) \o <<Delimiter, Head(msgs)>>

RECURSIVE Join(_)
Join(msgs) ==
    IF msgs = <<>> THEN <<>>
    ELSE IF Len(msgs) = 1 THEN msgs
         ELSE <<Head(msgs), Delimiter>> \o Join(Tail(msgs))

\* webhook: push_message_to_buffer(num, txt, ...), RPUSH at the tail
JoinPush(txt) ==
    /\ Len(joinBuf) < MaxJoin
    /\ joinBuf' = Append(joinBuf, txt)
    /\ UNCHANGED <<joinDrained, joinFinal>>

\* _enqueue_buffer_job: msgs, mids = pop_all_messages(n);
\* final = " | ".join([m for m in msgs if m.strip()])
JoinDrain ==
    /\ joinBuf # <<>>
    /\ joinDrained' = joinBuf
    /\ joinFinal' = Join(Stripped(PoppedTexts(joinBuf)))
    /\ joinBuf' = <<>>

InitJoin ==
    /\ joinBuf = <<>>
    /\ joinDrained = <<>>
    /\ joinFinal = <<>>

NextJoin ==
    \/ \E txt \in JoinTexts : JoinPush(txt) /\ UNCHANGED <<cbVars, lockVars, cartVars, bufVars, lkVars, orderVars, rtVars, apiVars, outVars, atomVars, failVars, ctxVars, finVars, exVars, retryVars, cdVars>>
    \/ JoinDrain /\ UNCHANGED <<cbVars, lockVars, cartVars, bufVars, lkVars, orderVars, rtVars, apiVars, outVars, atomVars, failVars, ctxVars, finVars, exVars, retryVars, cdVars>>

(***************************************************************************)
(* The buffer's list under concurrent pushes and a drain                   *)
(* Each Redis command is a step.  push_message_to_buffer sends RPUSH, TTL  *)
(* and, for a key without TTL, EXPIRE; pop_all_messages sends LRANGE and   *)
(* DELETE through client.pipeline(), which redis-py runs as MULTI/EXEC.    *)
(***************************************************************************)

\* callers of push_message_to_buffer at a time, and fragments pushed
NumPushers == 2
MaxAtomFrags == 3

Pushers == 1..NumPushers

\* client.pipeline(): transaction=True, no command of another client runs
\* between the commands of the pipeline
NotTransactional == FALSE
Transactional == TRUE

\* the server takes a command of another client
ServerFree == Transactional => aDrainPc = "idle"

\* client.rpush(key, payload)
PushRpush(p) ==
    /\ aPc[p] = "idle"
    /\ aNext <= MaxAtomFrags
    /\ ServerFree
    /\ aBuf' = Append(aBuf, aNext)
    /\ aTtl' = IF aBuf = <<>> THEN FALSE ELSE aTtl
    /\ aNext' = aNext + 1
    /\ aPc' = [aPc EXCEPT ![p] = "ttl"]
    /\ UNCHANGED <<aDrainPc, aRead, aReturned>>

\* "if client.ttl(key) in (-1, -2)"
PushTtl(p) ==
    /\ aPc[p] = "ttl"
    /\ ServerFree
    /\ aPc' = [aPc EXCEPT ![p] = IF aBuf = <<>> \/ ~aTtl THEN "expire" ELSE "idle"]
    /\ UNCHANGED <<aBuf, aTtl, aNext, aDrainPc, aRead, aReturned>>

\* client.expire(key, ttl_seconds): nothing happens to a key that is gone
PushExpire(p) ==
    /\ aPc[p] = "expire"
    /\ ServerFree
    /\ aTtl' = (aBuf # <<>>)
    /\ aPc' = [aPc EXCEPT ![p] = "idle"]
    /\ UNCHANGED <<aBuf, aNext, aDrainPc, aRead, aReturned>>

\* pipe.lrange(key, 0, -1)
DrainRead ==
    /\ aDrainPc = "idle"
    /\ aRead' = aBuf
    /\ aDrainPc' = "read"
    /\ UNCHANGED <<aBuf, aTtl, aNext, aPc, aReturned>>

\* pipe.delete(key); pop_all_messages returns what LRANGE read
DrainDelete ==
    /\ aDrainPc = "read"
    /\ aBuf' = <<>>
    /\ aTtl' = FALSE
    /\ aReturned' = [f \in 1..MaxAtomFrags |->
                       IF \E i \in 1..Len(aRead) : aRead[i] = f
                       THEN aReturned[f] + 1 ELSE aReturned[f]]
    /\ aRead' = <<>>
    /\ aDrainPc' = "idle"
    /\ UNCHANGED <<aNext, aPc>>

InitAtom ==
    /\ aBuf = <<>>
    /\ aTtl = FALSE
    /\ aNext = 1
    /\ aPc = [p \in Pushers |-> "idle"]
    /\ aDrainPc = "idle"
    /\ aRead = <<>>
    /\ aReturned = [f \in 1..MaxAtomFrags |-> 0]

NextAtom ==
    \/ \E p \in Pushers : PushRpush(p) /\ UNCHANGED <<cbVars, lockVars, cartVars, bufVars, lkVars, orderVars, rtVars, apiVars, outVars, joinVars, failVars, ctxVars, finVars, exVars, retryVars, cdVars>>
    \/ \E p \in Pushers : PushTtl(p) /\ UNCHANGED <<cbVars, lockVars, cartVars, bufVars, lkVars, orderVars, rtVars, apiVars, outVars, joinVars, failVars, ctxVars, finVars, exVars, retryVars, cdVars>>
    \/ \E p \in Pushers : PushExpire(p) /\ UNCHANGED <<cbVars, lockVars, cartVars, bufVars, lkVars, orderVars, rtVars, apiVars, outVars, joinVars, failVars, ctxVars, finVars, exVars, retryVars, cdVars>>
    \/ DrainRead /\ UNCHANGED <<cbVars, lockVars, cartVars, bufVars, lkVars, orderVars, rtVars, apiVars, outVars, joinVars, failVars, ctxVars, finVars, exVars, retryVars, cdVars>>
    \/ DrainDelete /\ UNCHANGED <<cbVars, lockVars, cartVars, bufVars, lkVars, orderVars, rtVars, apiVars, outVars, joinVars, failVars, ctxVars, finVars, exVars, retryVars, cdVars>>

(***************************************************************************)
(* report_failure under concurrent callers                                 *)
(* Each Redis command is a step: INCR, EXPIRE after a reply of 1, and on a *)
(* reply at the threshold SET of the open flag and DELETE of the counter.  *)
(* All calls fall in one failure window and one cooldown; no success.      *)
(***************************************************************************)

\* turns reporting at a time, and calls of report_failure in all
NumCallers == 3
MaxReports == 7

Callers == 1..NumCallers

\* failures = client.incr(fkey): the value after the increment
SeenBeforeIncr(count) == count
IncrReply(count) == count + 1

\* what follows the INCR, or the EXPIRE, for a caller that saw failures
AfterCount(failures, expired) ==
    IF failures = 1 /\ ~expired THEN "expire"
    ELSE IF ThresholdReached(failures) THEN "open"
    ELSE "idle"

\* failures = client.incr(fkey)
FailIncr(c) ==
    /\ fPc[c] = "idle"
    /\ fReported < MaxReports
    /\ fCount' = fCount + 1
    /\ fSeen' = [fSeen EXCEPT ![c] = IncrReply(fCount)]
    /\ fReported' = fReported + 1
    /\ fPc' = [fPc EXCEPT ![c] = AfterCount(IncrReply(fCount), FALSE)]
    /\ UNCHANGED fOpen

\* "if failures == 1: client.expire(fkey, 60)"
FailExpire(c) ==
    /\ fPc[c] = "expire"
    /\ fPc' = [fPc EXCEPT ![c] = AfterCount(fSeen[c], TRUE)]
    /\ UNCHANGED <<fCount, fOpen, fSeen, fReported>>

\* "if failures >= threshold: client.set(okey, '1', ex=cooldown)"
FailOpen(c) ==
    /\ fPc[c] = "open"
    /\ fOpen' = TRUE
    /\ fPc' = [fPc EXCEPT ![c] = "delete"]
    /\ UNCHANGED <<fCount, fSeen, fReported>>

\* client.delete(fkey)
FailDelete(c) ==
    /\ fPc[c] = "delete"
    /\ fCount' = 0
    /\ fPc' = [fPc EXCEPT ![c] = "idle"]
    /\ UNCHANGED <<fOpen, fSeen, fReported>>

InitFail ==
    /\ fCount = 0
    /\ fOpen = FALSE
    /\ fPc = [c \in Callers |-> "idle"]
    /\ fSeen = [c \in Callers |-> 0]
    /\ fReported = 0

NextFail ==
    \/ \E c \in Callers : FailIncr(c) /\ UNCHANGED <<cbVars, lockVars, cartVars, bufVars, lkVars, orderVars, rtVars, apiVars, outVars, joinVars, atomVars, ctxVars, finVars, exVars, retryVars, cdVars>>
    \/ \E c \in Callers : FailExpire(c) /\ UNCHANGED <<cbVars, lockVars, cartVars, bufVars, lkVars, orderVars, rtVars, apiVars, outVars, joinVars, atomVars, ctxVars, finVars, exVars, retryVars, cdVars>>
    \/ \E c \in Callers : FailOpen(c) /\ UNCHANGED <<cbVars, lockVars, cartVars, bufVars, lkVars, orderVars, rtVars, apiVars, outVars, joinVars, atomVars, ctxVars, finVars, exVars, retryVars, cdVars>>
    \/ \E c \in Callers : FailDelete(c) /\ UNCHANGED <<cbVars, lockVars, cartVars, bufVars, lkVars, orderVars, rtVars, apiVars, outVars, joinVars, atomVars, ctxVars, finVars, exVars, retryVars, cdVars>>

(***************************************************************************)
(* The human takeover: webhook, set_agent_cooldown, is_agent_in_cooldown   *)
(* One customer; cooldownTtl is the key cooldown:<tel> of that customer.   *)
(***************************************************************************)

\* the fragments the customer sends while the attendant comes and goes
MaxCdFrags == 4

\* settings.human_takeover_ttl
HUMAN_TAKEOVER_TTL == 2400

\* the fields class Settings declares for the channel and for the takeover;
\* extra="ignore" drops every other variable of the environment
SettingsFields == {"uazapi_base_url", "uazapi_token", "human_takeover_ttl"}

\* settings.<name>: the value of a declared field; reading a field the class
\* does not declare raises AttributeError
GetSetting(name, value) ==
    IF name \in SettingsFields THEN [raises |-> FALSE, value |-> value]
    ELSE [raises |-> TRUE, value |-> <<>>]

\* data["telefone"] of a message of the customer's chat, and of a message
\* the attendant sent to the attendant's own number
CustomerTel == <<"5", "5", "8", "5", "0", "0", "0", "1">>
AgentTel == <<"5", "5", "8", "5", "0", "0", "0", "9">>
Tels == {CustomerTel, AgentTel}

\* re.sub(r"\\D", "", s): in a raw string the pattern is a backslash followed
\* by the letter D, and every occurrence of these two characters is removed
RECURSIVE ReSubD(_)
ReSubD(s) ==
    IF Len(s) < 2 THEN s
    ELSE IF s[1] = "\\" /\ s[2] = "D" THEN ReSubD(SubSeq(s, 3, Len(s)))
    ELSE <<s[1]>> \o ReSubD(Tail(s))

\* settings.whatsapp_agent_number, set to the attendant's number in the
\* environment
whatsapp_agent_number == GetSetting("whatsapp_agent_number", AgentTel)

\* is_agent_in_cooldown(num)[0]: the key cooldown:<num> exists
is_agent_in_cooldown(num) == num = CustomerTel /\ cooldownTtl > 0

\* set_agent_cooldown(tel, ttl): SET cooldown:<tel> "1" EX ttl
set_agent_cooldown(tel, ttl) ==
    cooldownTtl' = IF tel = CustomerTel THEN ttl ELSE cooldownTtl

\* what a call of the webhook leaves in cdLast; active: the customer's
\* cooldown key existed when the call came in; frag: the fragment it carried
Answered(kind, tel, status, frag) ==
    [kind |-> kind, tel |-> tel, status |-> status, active |-> cooldownTtl > 0,
     frag |-> frag]

\* webhook, "if from_me:": the attendant's number wrote into the chat of tel.
\* settings.whatsapp_agent_number is read first; the handler's except turns
\* an exception into the 500 response. With a number, a message to a
\* customer sets the cooldown and clears the cart
WebhookFromMe(tel) ==
    /\ IF whatsapp_agent_number.raises
       THEN /\ cdLast' = Answered("from_me", tel, "error", 0)
            /\ UNCHANGED <<cooldownTtl, cartVars, orderVars>>
       ELSE IF /\ whatsapp_agent_number.value # <<>>
               /\ tel # ReSubD(whatsapp_agent_number.value)
       THEN /\ set_agent_cooldown(tel, HUMAN_TAKEOVER_TTL)
            /\ IF tel = CustomerTel THEN ClearCart
               ELSE UNCHANGED <<cartVars, orderVars>>
            /\ cdLast' = Answered("from_me", tel, "ignored_self", 0)
       ELSE /\ cdLast' = Answered("from_me", tel, "ignored_self", 0)
            /\ UNCHANGED <<cooldownTtl, cartVars, orderVars>>
    /\ UNCHANGED bufVars

\* webhook, a fragment of the customer: during the cooldown it is saved to
\* the history and answered "cooldown"; otherwise it is pushed and the loop
\* is scheduled
WebhookInbound ==
    LET num    == ReSubD(CustomerTel)
        active == is_agent_in_cooldown(num)
    IN  /\ nextFrag <= MaxCdFrags
        /\ cdLast' = Answered("inbound", CustomerTel,
                              IF active THEN "cooldown" ELSE "buffering", nextFrag)
        /\ IF active
           THEN /\ nextFrag' = nextFrag + 1
                /\ UNCHANGED <<msgbuf, msgbufTtl, buffer_sessions, loopPc, prev, stall,
                               included, loops, lastAge, drainAge>>
           ELSE Webhook
        /\ UNCHANGED <<cooldownTtl, cartVars, orderVars>>

\* the store's clock: the cooldown key ages with the keys of the order
TakeoverClock ==
    /\ cooldownTtl > 0 \/ sessionTtl > 0 \/ cartTtl > 0
    /\ cooldownTtl' = CartAfter(cooldownTtl)
    /\ IF sessionTtl > 0 \/ cartTtl > 0 \/ comprovanteTtl > 0 \/ completedTtl > 0
       THEN CartClock
       ELSE UNCHANGED <<cartVars, orderVars>>
    /\ UNCHANGED <<cdLast, bufVars>>

InitCooldown ==
    /\ cooldownTtl = 0
    /\ cdLast = [kind |-> "none", tel |-> <<>>, status |-> "none", active |-> FALSE,
                 frag |-> 0]

\* what neither the webhook nor the loop nor the cart touches
CooldownRest ==
    UNCHANGED <<cbVars, lockVars, lkVars, rtVars, apiVars, outVars, joinVars, atomVars,
                failVars, ctxVars, finVars, exVars, retryVars>>

NextCooldown ==
    \/ WebhookInbound /\ CooldownRest
    \/ \E tel \in Tels : WebhookFromMe(tel) /\ CooldownRest
    \/ LoopTop /\ UNCHANGED <<cartVars, orderVars, cdVars>> /\ CooldownRest
    \/ LoopPoll /\ UNCHANGED <<cartVars, orderVars, cdVars>> /\ CooldownRest
    \/ LoopEnqueued /\ UNCHANGED <<cartVars, orderVars, cdVars>> /\ CooldownRest
    \/ AddItem(AskedOnce) /\ UNCHANGED <<bufVars, cdVars>> /\ CooldownRest
    \/ TakeoverClock /\ CooldownRest

Init ==
    /\ InitCircuit /\ InitLock /\ InitCart /\ InitBuffer /\ InitLookup /\ InitRouter
    /\ InitApi
    /\ InitContext
    /\ InitFinalize
    /\ InitExit
    /\ InitRetry
    /\ InitCooldown
    /\ InitOutage
    /\ InitJoin
    /\ InitAtom
    /\ InitFail

SpecCircuit == Init /\ [][NextCircuit]_vars

SpecLock == Init /\ [][NextLock]_vars

SpecCart == Init /\ [][NextCart]_vars

SpecBuffer == Init /\ [][NextBuffer]_vars

SpecLookup == Init /\ [][NextLookup]_vars

SpecOrder == Init /\ [][NextOrder]_vars

SpecResync == Init /\ [][NextResync]_vars

SpecOutage == Init /\ [][NextOutage]_vars

SpecJoin == Init /\ [][NextJoin]_vars

SpecAtom == Init /\ [][NextAtom]_vars

SpecFail == Init /\ [][NextFail]_vars

SpecRouter == Init /\ [][NextRouter]_vars

\* the responses tried where the path through the graph is what matters:
\* one that asserts nothing, one flagged by vendedor's check without its
\* tool, one flagged by caixa's
GraphSays == {{}, {"added"}, {"confirmed"}}
GraphVendedorTools == {{}, {"add_item_tool"}}
GraphCaixaTools == {{}, {"finalizar_pedido_tool"}}

NextGraph ==
    \/ TurnStart /\ UNCHANGED <<cbVars, lockVars, cartVars, bufVars, lkVars, orderVars, apiVars, outVars, joinVars, atomVars, failVars, ctxVars, finVars, exVars, retryVars, cdVars>>
    \/ GraphRecursion /\ UNCHANGED <<cbVars, lockVars, cartVars, bufVars, lkVars, orderVars, apiVars, outVars, joinVars, atomVars, failVars, ctxVars, finVars, exVars, retryVars, cdVars>>
    \/ \E cls \in Classifications :
          Orchestrate(cls) /\ UNCHANGED <<cbVars, lockVars, cartVars, bufVars, lkVars, orderVars, apiVars, outVars, joinVars, atomVars, failVars, ctxVars, finVars, exVars, retryVars, cdVars>>
    \/ \E says \in GraphSays, tools \in GraphVendedorTools :
          VendedorInvoke(says, tools) /\ UNCHANGED <<cbVars, lockVars, cartVars, bufVars, lkVars, orderVars, apiVars, outVars, joinVars, atomVars, failVars, ctxVars, finVars, exVars, retryVars, cdVars>>
    \/ \E says \in GraphSays, tools \in GraphCaixaTools, handback \in BOOLEAN :
          CaixaInvoke(says, tools, handback) /\ UNCHANGED <<cbVars, lockVars, cartVars, bufVars, lkVars, orderVars, apiVars, outVars, joinVars, atomVars, failVars, ctxVars, finVars, exVars, retryVars, cdVars>>

\* what no node of the graph touches
RouterRest ==
    UNCHANGED <<cbVars, lockVars, cartVars, bufVars, lkVars, orderVars, apiVars, outVars,
                joinVars, atomVars, failVars, ctxVars, finVars, exVars, retryVars, cdVars>>

\* a node that is next runs, and its agent.invoke returns: the responders'
\* agents are given a recursion_limit of their own; nothing obliges a turn
\* to start
SpecGraphFair ==
    /\ Init /\ [][NextGraph]_vars
    /\ WF_vars(RouterRest /\ \E cls \in Classifications : Orchestrate(cls))
    /\ WF_vars(RouterRest /\ \E says \in GraphSays, tools \in GraphVendedorTools :
                                VendedorInvoke(says, tools))
    /\ WF_vars(RouterRest /\ \E says \in GraphSays, tools \in GraphCaixaTools,
                                handback \in BOOLEAN : CaixaInvoke(says, tools, handback))
    /\ WF_vars(RouterRest /\ GraphRecursion)

SpecFinalize == Init /\ [][NextFinalize]_vars

SpecExit == Init /\ [][NextExit]_vars

SpecRetry == Init /\ [][NextRetry]_vars

\* what no step of an invocation touches
ExitRest ==
    UNCHANGED <<cbVars, cartVars, bufVars, lkVars, orderVars, rtVars, apiVars, outVars,
                joinVars, atomVars, failVars, ctxVars, finVars, retryVars, cdVars>>

\* an invocation that is alive goes on to its next statement, and Redis
\* deletes a key whose time is over; nothing obliges a message to arrive or
\* a process to die
SpecExitFair ==
    /\ SpecExit
    /\ \A w \in Workers :
          /\ WF_vars(ExitRest /\ \E r \in BOOLEAN, u \in BOOLEAN : ExHistory(w, r, u))
          /\ WF_vars(ExitRest /\ \E outcome \in GraphOutcomes : ExRouter(w, outcome))
          /\ WF_vars(ExitRest /\ \E a \in BOOLEAN : ExFinish(w, a))
    /\ WF_vars(ExitRest /\ LockExpire /\ UNCHANGED exVars)

SpecTurn == Init /\ [][NextTurn]_vars

(***************************************************************************)
(* Cart store: properties                                                  *)
(***************************************************************************)

\* C4: an add or a remove that succeeds while the stored session is sent
\* issues exactly one overwrite, whose payload is the whole cart as the
\* mutation left it.
C4_ResyncOnSent ==
    (cartLast.op \in {"add", "remove"} /\ cartLast.ok /\ cartLast.status = "sent")
        => (cartLast.overwrites = 1 /\ cartLast.full)

\* an add to a sent order that already held another item was resynchronised
C4_Witness ==
    /\ cartLast.op = "add"
    /\ cartLast.ok
    /\ cartLast.status = "sent"
    /\ cartLast.overwrites = 1
    /\ Len(cart) >= 2

\* C5: every add and every remove that succeeds inside the modification
\* window opened by mark_sent (before it expires or the order is reopened)
\* issues an overwrite carrying the current cart, so the order API holds the
\* local cart after each of them.
C5_EveryMutationResyncs ==
    (cartLast.op \in {"add", "remove"} /\ cartLast.ok /\ cartLast.live)
        => (cartLast.overwrites = 1 /\ cartLast.full)

\* C6: adding an item whose name (trimmed, case-insensitive) is already in
\* the cart leaves the cart's length and its other items as they were and
\* makes that item's quantity the sum of both, in its place; adding a name
\* not in the cart appends the item at the end.
C6_MergeOrAppend ==
    [][\A in \in AddInputs :
          (cartLast'.op = "add" /\ in.valid /\ in.item.quantidade.num /\ AddItem(in)) =>
             LET new  == in.item
                 same == {i \in 1..Len(cart) :
                            NormName(cart[i].produto) = NormName(new.produto)}
             IN  /\ same = {} => cart' = Append(cart, new)
                 /\ \A i \in same :
                       (same = {i} /\ cart[i].quantidade.num) =>
                          /\ Len(cart') = Len(cart)
                          /\ cart'[i].quantidade =
                                Num(cart[i].quantidade.val + new.quantidade.val)
                          /\ NormName(cart'[i].produto) = NormName(new.produto)
                          /\ \A j \in (1..Len(cart)) \ {i} : cart'[j] = cart[j]]_vars

\* "Arroz" 1 then "arroz " 2 are one item of quantity 3, still ahead of the
\* item added between them
C6_Witness ==
    /\ cartLast.op = "add"
    /\ cartLast.merged
    /\ Len(cart) >= 2
    /\ NormName(cart[1].produto) = "arroz"
    /\ cart[1].quantidade = Num(3)

\* C7: the cart never holds two items whose names are equal after trimming
\* and lower-casing.
C7_OneItemPerName ==
    \A i, j \in 1..Len(cart) :
        i # j => NormName(cart[i].produto) # NormName(cart[j].produto)

C2_OneTurnAtATime ==
    /\ Cardinality({w \in Workers : turnPc[w] = "router"}) <= 1
    /\ \A w \in Workers :
          turnPc[w] = "router" => (turnToken[w] # NoToken /\ lockVal = turnToken[w])

\* a second invocation was turned away while a turn's router was running
C2_Witness ==
    /\ lockLast.op = "busy"
    /\ \E w \in Workers : turnPc[w] = "router" /\ w # lockLast.w

\* C3: an acquire while a token is outstanding returns nil at once and
\* leaves the lock with its holder; a turn that releases while its own
\* token is not the lock's current value leaves the lock as it is.
C3_LockExclusivity ==
    /\ (lockLast.op \in {"busy", "acquire"} /\ lockLast.held # NoToken)
          => (lockLast.op = "busy" /\ lockLast.own = NoToken
              /\ lockVal = lockLast.held)
    /\ (lockLast.op = "release" /\ lockLast.own # lockLast.held)
          => lockVal = lockLast.held

\* a turn whose lock expired and was acquired by a newer turn has released
\* with its stale token, and the newer turn still holds the lock
C3_Witness ==
    /\ lockLast.op = "release"
    /\ lockLast.held # NoToken
    /\ lockLast.own # lockLast.held
    /\ lockVal = lockLast.held
    /\ \E w \in Workers : turnToken[w] = lockVal

(***************************************************************************)
(* Circuit breaker: properties                                             *)
(***************************************************************************)

\* C9: the failure that completes a run of THRESHOLD failures inside one
\* failure window (no success in between) opens the circuit for COOLDOWN
\* seconds and restarts the failure counter from zero; the circuit is open
\* exactly while less than COOLDOWN seconds have passed since the flag was
\* last set, and closes by expiry alone.
C9_ThresholdOpensForCooldown ==
    /\ (cbLast.op = "failure" /\ cbLast.run = THRESHOLD)
          => (check_circuit_open /\ cbOpenTtl = COOLDOWN /\ cbFailures = 0)
    /\ check_circuit_open <=> (cbOpenAge >= 0 /\ cbOpenAge < COOLDOWN)

\* the circuit was opened, COOLDOWN seconds passed, and it is closed again
C9_Witness ==
    /\ cbLast.op = "tick"
    /\ cbOpenAge >= COOLDOWN
    /\ ~check_circuit_open

\* C10: a report_success leaves the failure counter at 0 whatever it was; a
\* failure that does not open the circuit leaves the counter equal to the
\* number of failures since that success (the next one counts as 1), and a
\* failure opens the circuit only as the THRESHOLD-th failure since then.
C10_SuccessResetsCount ==
    /\ cbLast.op = "success" => cbFailures = 0
    /\ (cbLast.op = "failure" /\ ~cbLast.opened) => cbFailures = cbLast.run
    /\ (cbLast.op = "failure" /\ cbLast.opened) => cbLast.run = THRESHOLD

\* a success arrived after N failures, 0 < N < THRESHOLD, and cleared them
C10_Witness ==
    /\ cbLast.op = "success"
    /\ cbLast.prior > 0
    /\ cbLast.prior < THRESHOLD
    /\ cbFailures = 0

\* C11: while the key circuit:open exists check_circuit_open answers true
\* whatever the failure counter holds, and a report_success or a
\* report_failure made while it exists leaves it in place with no less time
\* to live.
C11_OpenFlagBlocks ==
    [][/\ cbOpenTtl > 0 => check_circuit_open
       /\ (cbOpenTtl > 0 /\ (ReportSuccess \/ ReportFailure)) =>
             /\ cbOpenTtl' >= cbOpenTtl
             /\ check_circuit_open']_vars

\* a success was reported while the circuit was open and its counter absent
C11_Witness ==
    /\ cbLast.op = "success"
    /\ cbOpenTtl > 0
    /\ cbFailures = 0
    /\ check_circuit_open

\* C12: no request goes to the stock/price service while the key
\* circuit:open exists -- neither the first attempt of a lookup nor a retry
\* made after the circuit has opened -- and a lookup started while it exists
\* answers from the cache or with the fixed message.
C12_NoRequestWhileOpen ==
    /\ lkLast.sent => ~lkLast.wasOpen
    /\ lkLast.op = "blocked" => (~lkLast.sent /\ lkLast.result \in {"cached", "instavel"})

\* C16: when the session is sent and the next message is a greeting,
\* get_order_context leaves no cart, no pending receipt, and a new session
\* with status building, no sent_at and no order_id.
C16_GreetingReopens ==
    (cartLast.op = "context" /\ cartLast.ok /\ cartLast.status = "sent")
        => /\ session = StartedSession
           /\ cart = <<>>
           /\ comprovanteTtl = 0

\* C19: the status of the session changes only from absent to building (a
\* start), from building to sent (mark_sent), from sent or building to absent
\* (expiry) and from sent to building by a reopen (clear, then start, on a
\* greeting or a reset); an add or a remove on a sent session leaves its
\* status and its order_id as they were.
C19_StatusTransitions ==
    [][/\ \/ session'.status = session.status
          \/ <<session.status, session'.status>> \in
                {<<"absent", "building">>, <<"building", "sent">>}
          \/ /\ session'.status = "absent"
             /\ cartLast'.op = "tick"
          \/ /\ <<session.status, session'.status>> = <<"sent", "building">>
             /\ \/ cartLast'.op = "context" /\ cartLast'.ok
                \/ cartLast'.op = "reset"
       /\ (cartLast'.op \in {"add", "remove"} /\ session.status = "sent") =>
             /\ session'.status = "sent"
             /\ session'.order_id = session.order_id]_vars

\* C20: right after mark_order_sent the session is sent and carries the
\* order_id, the session, the cart and the receipt (if there is one) have 15
\* minutes left each, and the completion marker has 2 hours left, more than
\* the session.
C20_SentWindow ==
    cartLast.op = "mark_sent" =>
        /\ session.status = "sent"
        /\ session.order_id = "pedido"
        /\ sessionTtl = MODIFICATION_TTL
        /\ cart # <<>> /\ cartTtl = MODIFICATION_TTL
        /\ comprovanteTtl \in {0, MODIFICATION_TTL}
        /\ completedTtl = COMPLETED_TTL
        /\ completedTtl > sessionTtl

\* an order with a pending receipt has just been sent
C20_Witness ==
    /\ cartLast.op = "mark_sent"
    /\ comprovanteTtl = MODIFICATION_TTL
    /\ sessionTtl = MODIFICATION_TTL
    /\ completedTtl = COMPLETED_TTL

(***************************************************************************)
(* Message debounce buffer: properties                                     *)
(***************************************************************************)

\* C13: every turn text is drained at least 3 polls of 5 seconds after the
\* arrival of the newest fragment it contains.
C13_DrainAfterQuiescence ==
    drainAge >= 0 => drainAge >= STALL_LIMIT * POLL_SECONDS

C15_OneLoop ==
    /\ loops <= 1
    /\ buffer_sessions <=> loops = 1
    /\ buffer_sessions <=> loopPc # "idle"

\* a second fragment arrived while the loop was asleep and started no loop
C15_Witness ==
    /\ loops = 1
    /\ loopPc = "sleep"
    /\ lastAge < 0
    /\ Len(msgbuf) >= 2

\* C1: every fragment whose push succeeded ends in the text of exactly one
\* turn: at any moment it is either still waiting in the buffer, in no turn
\* yet, or out of the buffer and in exactly one turn -- whenever it arrived
\* and however long fragments keep arriving.
C1_EveryFragmentInOneTurn ==
    \A f \in 1..(nextFrag - 1) :
        IF f \in FragsOf(msgbuf) THEN included[f] = 0 ELSE included[f] = 1

\* the responses of each responder, split by what its check says of them
VendedorResponses == (SUBSET Kinds) \X (SUBSET VendedorTools)
VendedorFlagged == {r \in VendedorResponses : VendedorHallucination(r[1], r[2])}
VendedorPassed == VendedorResponses \ VendedorFlagged
CaixaResponses == (SUBSET Kinds) \X (SUBSET CaixaTools)
CaixaFlagged == {r \in CaixaResponses : CaixaHallucination(r[1], r[2])}
CaixaPassed == CaixaResponses \ CaixaFlagged

\* C17: one execution of a responder node invokes the responder at most
\* twice; the second invocation happens only after the first response was
\* flagged; a flagged second response ends the node with the fixed fallback
\* text; a first response that passes ends the node without a retry.
C17_AtMostOneRetry ==
    [][/\ rtInvocations' <= 2
       /\ rtInvocations' = 2 => rtFirstFlagged'
       /\ (rtNode = "vendedor" /\ rtPhase = "retry") =>
             \/ rtNode' = "done" /\ rtOut' = FallbackText
             \/ \A r \in VendedorFlagged : ~VendedorInvoke(r[1], r[2])
       /\ (rtNode = "vendedor" /\ rtPhase = "first") =>
             \/ rtNode' = "done" /\ rtInvocations' = 1
             \/ \A r \in VendedorPassed :
                   ~VendedorInvoke(r[1], r[2])
       /\ (rtNode = "caixa" /\ rtPhase = "retry") =>
             \/ rtNode' = "done" /\ rtOut' = FallbackText
             \/ \A r \in CaixaFlagged, handback \in BOOLEAN :
                   ~CaixaInvoke(r[1], r[2], handback)
       /\ (rtNode = "caixa" /\ rtPhase = "first") =>
             \/ rtNode' = "done" /\ rtInvocations' = 1
             \/ \A r \in CaixaPassed, handback \in BOOLEAN :
                   ~CaixaInvoke(r[1], r[2], handback)]_vars

\* a node was invoked twice, both responses were flagged and the turn ended
\* with the fallback text
C17_Witness ==
    /\ rtNode = "done"
    /\ rtInvocations = 2
    /\ rtFirstFlagged
    /\ rtOut = FallbackText

\* C18: the text a finished turn returns is a fixed message, or a response
\* in which every asserted action (added, found, order confirmed, total) is
\* backed by a call of its tool in the execution that produced the response.
C18_VerifiedOrFixed ==
    rtNode = "done" =>
        \/ rtOut.kind \in {"fallback", "error"}
        \/ /\ rtOut.kind = "response"
           /\ "added" \in rtOut.says => "add_item_tool" \in rtOut.tools
           /\ "found" \in rtOut.says =>
                 \/ "busca_analista" \in rtOut.tools
                 \/ "get_pending_suggestions_tool" \in rtOut.tools
           /\ "confirmed" \in rtOut.says => "finalizar_pedido_tool" \in rtOut.tools
           /\ "total" \in rtOut.says =>
                 \/ "calcular_total_tool" \in rtOut.tools
                 \/ "finalizar_pedido_tool" \in rtOut.tools

\* C21: right after an add or a remove that changed the cart of a building
\* session, the session has its full 30 minutes to live.
C21_MutationRefreshesSession ==
    (cartLast.op \in {"add", "remove"} /\ cartLast.ok /\ cartLast.status = "building")
        => sessionTtl = SESSION_TTL

\* C22: while a building session stays alive, the passing of time does not
\* take the cart away: the cart is not lost to its own TTL under a session
\* that is building before and after the step.
C22_CartLivesWithSession ==
    [][(session.status = "building" /\ session'.status = "building" /\ CartClock)
          => cart' = cart]_vars

\* C23: a step that changes the customer's cart or session is taken while a
\* turn of the customer is running under the lock it holds, and the buffer
\* job and the webhook change neither while a turn holds the lock.
C23_WritesUnderLock ==
    [][/\ (<<session, cart>>' # <<session, cart>>) =>
             \E w \in Workers :
                turnPc[w] = "router" /\ turnToken[w] # NoToken /\ lockVal = turnToken[w]
       /\ (lockVal # NoToken /\ (TakeoverClear \/ \E g \in BOOLEAN : BufferContext(g))) =>
             <<session, cart>>' = <<session, cart>>]_vars

\* C24: an invocation that finds the lock held answers busy at once: it
\* stays out of the router and holds no token, and the step that answers
\* busy leaves the lock, the turns, the cart, the session and the router as
\* they are.
C24_BusyTouchesNothing ==
    [][/\ \A w \in Workers :
             (lockVal # NoToken /\ RunAgentStart(w)) =>
                /\ lockLast'.op = "busy"
                /\ lockLast'.own = NoToken
                /\ turnPc'[w] = "idle"
                /\ turnToken'[w] = NoToken
                /\ lockVal' = lockVal
       /\ (lockLast' # lockLast /\ lockLast'.op = "busy") =>
             /\ lockLast'.held # NoToken
             /\ UNCHANGED <<lockVal, turnPc, turnToken, cartVars, orderVars, rtVars>>]_vars

\* an invocation was turned away while the other turn, still in its router
\* and holding the lock, had put an item in the cart
C24_Witness ==
    /\ lockLast.op = "busy"
    /\ cart # <<>>
    /\ \E w \in Workers :
          w # lockLast.w /\ turnPc[w] = "router" /\ lockVal = turnToken[w]

\* C25: an add or a remove on a sent session whose overwrite call fails
\* keeps its change of the cart and reports success: the overwrite was
\* attempted once, the order API did not receive the cart, the cart is as
\* the mutation left it.
C25_FailedSyncKeepsMutation ==
    [][/\ \A in \in AddInputs :
             (cartLast'.op = "add" /\ ~apiUp /\ session.status = "sent" /\ in.valid
                /\ AddItem(in)) =>
                /\ cartLast'.ok
                /\ cartLast'.overwrites = 1
                /\ ~cartLast'.full
                /\ cart' = CartAfterAdd(cart, in.item)
                /\ cart' # cart
       /\ \A index \in RemoveInputs :
             (cartLast'.op = "remove" /\ ~apiUp /\ session.status = "sent"
                /\ IndexInRange(index, Len(cart)) /\ RemoveItem(index)) =>
                /\ cartLast'.ok
                /\ cartLast'.overwrites = 1
                /\ ~cartLast'.full
                /\ Len(cart') = Len(cart) - 1]_vars

\* an add on a sent session went through while the order API was down
C25_Witness ==
    /\ cartLast.op = "add"
    /\ cartLast.ok
    /\ cartLast.status = "sent"
    /\ cartLast.overwrites = 1
    /\ ~cartLast.full
    /\ ~apiUp
    /\ cart # <<>>

\* C26: a responder node that is about to run was chosen by the last
\* classification: caixa only when the classifier answered and its answer
\* holds a word of the checkout intent; vendedor whenever the classification
\* failed (nothing to classify, an exception, an answer with no such word).
C26_CheckoutOnlyOnMatch ==
    /\ (rtNode = "caixa") =>
          (rtCls.kind = "output" /\ rtCls.has \cap IntentWords # {})
    /\ (rtNode \in {"vendedor", "caixa"}
          /\ (rtCls.kind \in {"empty", "raised"} \/ rtCls.has \cap IntentWords = {})) =>
          rtNode = "vendedor"

\* the classifier raised and the turn is with vendedor, about to be answered
C26_Witness ==
    /\ rtNode = "vendedor"
    /\ rtCls.kind = "raised"
    /\ rtInvocations = 0

\* C27: a primitive called while the server does not answer returns its
\* safe default: the push keeps the fragment in process memory, the drain
\* returns what process memory holds, there is no session, an add reports
\* false, the circuit is closed.
C27_SafeDefaults ==
    outLast.down =>
        /\ outLast.op = "push" => outLast.result = "local"
        /\ outLast.op = "pop" => outLast.result \in {"local", "empty"}
        /\ outLast.op = "context" => outLast.result = "absent"
        /\ outLast.op = "add" => outLast.result = "false"
        /\ outLast.op = "check" => outLast.result = "closed"

C29_DrainAtomic ==
    \A f \in 1..(aNext - 1) :
        IF \E i \in 1..Len(aBuf) : aBuf[i] = f
        THEN aReturned[f] = 0
        ELSE aReturned[f] = 1

\* a drain returned the first fragment while the push of the second, which
\* is in the list, was still between its commands
C29_Witness ==
    /\ aReturned[1] = 1
    /\ aDrainPc = "idle"
    /\ \E i \in 1..Len(aBuf) : aBuf[i] = 2
    /\ \E p \in Pushers : aPc[p] # "idle"
    /\ \E p \in Pushers : aPc[p] = "expire"

\* C30: under any interleaving of the commands of concurrent report_failure
\* calls, once THRESHOLD failures have been reported the circuit is open or
\* a caller whose INCR replied at least THRESHOLD is about to open it; when
\* every call has returned, the circuit is open.
C30_NoFailureLost ==
    fReported >= THRESHOLD =>
        /\ fOpen \/ \E c \in Callers :
                       fPc[c] \in {"expire", "open"} /\ fSeen[c] >= THRESHOLD
        /\ (\A c \in Callers : fPc[c] = "idle") => fOpen

\* exactly THRESHOLD failures were reported by three interleaved callers, and
\* all of them have returned
C30_Witness ==
    /\ fReported = THRESHOLD
    /\ fOpen
    /\ \A c \in Callers : fPc[c] = "idle" /\ fSeen[c] > 0

(***************************************************************************)
(* Retries of the stock lookup                                             *)
(***************************************************************************)

\* C31: a lookup sends at most MAX_RETRIES requests; a request that ends in
\* a timeout or in a 5xx response is reported to the circuit breaker, and
\* while the bound is not reached it is followed by another request of the
\* same lookup.
C31_TransientRetried ==
    [][\A outcome \in {"timeout", "http5xx"} :
          (LookupAttempt(outcome) /\ lkOutcome' = outcome) =>
              /\ lkAttempt < MAX_RETRIES
              /\ cbLast'.op = "failure"
              /\ lkAttempt < MAX_RETRIES - 1 =>
                    (lkPc' = "attempt" /\ lkAttempt' = lkAttempt + 1)]_vars

(***************************************************************************)
(* The context of a turn that finds no session                             *)
(***************************************************************************)

\* C32: when get_order_context finds no session it starts a building
\* session; it returns the text of a fresh, never-finalized conversation
\* exactly when no completion marker exists, and with a marker it returns the
\* text of a returning customer and deletes the marker.
C32_FreshIffNoMarker ==
    [][\A g \in BOOLEAN :
          (session.status = "absent" /\ GetOrderContext(g)) =>
              /\ session' = StartedSession /\ sessionTtl' = SESSION_TTL
              /\ ctxText' = "fresh" <=> completedTtl = 0
              /\ completedTtl > 0 => (ctxText' = "returning" /\ completedTtl' = 0)
              /\ ctxText' \in {"fresh", "returning"}]_vars

\* an order was sent, its session expired, and the next turn was told of a
\* returning customer and took the marker away
C32_Witness ==
    /\ cartLast.op = "context"
    /\ ctxText = "returning"
    /\ session.status = "building"
    /\ completedTtl = 0

(***************************************************************************)
(* The stored session after mark_order_sent                                *)
(***************************************************************************)

\* C33: a stored session whose status is sent has a sent_at, whether
\* mark_order_sent found a building session or none.
C33_SentHasSentAt ==
    session.status = "sent" => session.sent_at

\* the session ran out while the order was being posted, and mark_order_sent
\* wrote the sent session from nothing
C33_Witness ==
    /\ finLast.op = "submit" /\ finLast.marked
    /\ finLast.status = "absent"
    /\ session.status = "sent" /\ session.sent_at

(***************************************************************************)
(* What a turn returns                                                     *)
(***************************************************************************)

C35_FirstPassIsOutput ==
    [][\A says \in SUBSET Kinds, tools \in SUBSET CaixaTools, handback \in BOOLEAN :
          (/\ rtNode = "caixa" /\ rtPhase = "first"
           /\ ~CaixaHallucination(says, tools)
           /\ CaixaInvoke(says, tools, handback)) =>
              /\ rtOut' = Response(says, tools)
              /\ rtNode' = IF handback THEN "orchestrator" ELSE "done"]_vars

(***************************************************************************)
(* The lock at the end of a turn                                           *)
(***************************************************************************)

C37_GraphTerminates ==
    /\ [](rtSteps <= RECURSION_LIMIT /\ 2 * rtHops <= rtSteps)
    /\ [][/\ rtNode = "vendedor" => rtNode' \in {"vendedor", "done"}
          /\ (rtNode' = "vendedor" /\ rtNode # "vendedor") => rtNode = "orchestrator"
          /\ (rtNode' = "orchestrator" /\ rtNode # "orchestrator") =>
                rtNode \in {"none", "done", "caixa"}]_vars
    /\ [](rtNode \in {"orchestrator", "vendedor", "caixa"} => <>(rtNode = "done"))

\* the classifier chose checkout and caixa handed the turn back until the
\* graph ran out of node executions
C37_Witness ==
    /\ rtNode = "done"
    /\ rtSteps = RECURSION_LIMIT
    /\ rtHops >= 2
    /\ rtOut = ErrorText

(***************************************************************************)
(* What finalizar_pedido_tool changes                                      *)
(***************************************************************************)

\* C38: the session becomes sent only in a call of finalizar_pedido_tool
\* that posted a non-empty cart and whose post the order API accepted; a
\* call that finds the cart empty posts nothing; a call that finds the cart
\* empty or whose post failed leaves the session's status, the cart and the
\* completion marker as they were.
C38_SentOnlyAfterAcceptedSubmit ==
    [][/\ (session'.status = "sent" /\ session.status # "sent") =>
             /\ finLast'.op = "submit" /\ finLast'.submitted /\ finLast'.ok
             /\ finItems # <<>>
       /\ (finLast' # finLast /\ finLast'.op = "empty") =>
             /\ ~finLast'.submitted
             /\ UNCHANGED <<session, cart, completedTtl>>
       /\ (finLast' # finLast /\ finLast'.op = "submit" /\ ~finLast'.ok) =>
             /\ session'.status = session.status
             /\ UNCHANGED <<cart, completedTtl>>]_vars

(***************************************************************************)
(* The cart after a discarded attempt                                      *)
(***************************************************************************)

\* C39: when vendedor_node has returned, the cart is the cart the turn
\* started with or that cart with the asked product added once, whether the
\* first attempt was kept, replaced by the retry, or both were discarded for
\* the fixed text.
C39_AtMostOneExecution ==
    (rtNode = "done" /\ rtCls # NoClassification) =>
        get_cart_items \in {rySnap, CartAfterAdd(rySnap, AskedOnce.item)}

SpecCooldown == Init /\ [][NextCooldown]_vars

\* C40: a fragment of the customer that comes in while the cooldown key
\* exists is not pushed and schedules no loop; a message of the attendant to
\* the customer sets the cooldown and empties the customer's cart; without
\* the key a fragment is pushed to the buffer and a loop is running for it
C40_TakeoverPausesCustomer ==
    [][/\ (cdLast' # cdLast /\ cdLast'.kind = "inbound") =>
              IF cooldownTtl > 0
              THEN /\ UNCHANGED <<msgbuf, buffer_sessions, loopPc, loops, included>>
                   /\ cdLast'.status = "cooldown"
              ELSE /\ msgbuf' = Append(msgbuf, cdLast'.frag)
                   /\ buffer_sessions'
       /\ (cdLast' # cdLast /\ cdLast'.kind = "from_me" /\ cdLast'.tel = CustomerTel) =>
              /\ cooldownTtl' = HUMAN_TAKEOVER_TTL
              /\ cart' = <<>>]_vars
====
